---- MODULE Spec2Model ----
(***************************************************************************)
(* MedScribe mock REST API (src/medscribe_api.py, src/app.py).             *)
(*                                                                         *)
(* Every request is handled on its own: a handler reads the path, the      *)
(* query string, the JSON body and the Authorization header, and builds    *)
(* its response from literals, from uuid.uuid4() and from datetime.now().  *)
(*                                                                         *)
(* What a handler returns is kept apart from the response sent for it: the *)
(* framework serialises the returned body as JSON, and a body that holds   *)
(* a datetime object cannot be serialised.                                 *)
(*                                                                         *)
(* A Python str is modelled as the sequence of its characters, each        *)
(* character a one-character string.  U+017F (LATIN SMALL LETTER LONG S)   *)
(* is written LongS and U+0000 is written NUL.                             *)
(***************************************************************************)
EXTENDS Integers, Sequences, FiniteSets, TLC

VARIABLES
    pc,          \* "idle", or "responded" once the handler has returned
    request,     \* the request being handled
    returned,    \* what its decorated handler returned or raised
    response,    \* the response to it
    runs,        \* how many times its handler body has run
    drawn,       \* what it drew from uuid.uuid4() and datetime.now()
    remembered,  \* observer: an earlier search exchange
    before,      \* observer: an earlier read exchange
    written,     \* observer: the latest write handled since
    issued,      \* observer: an earlier generation of identifiers
    contexts     \* the request contexts of concurrently working threads

observers == <<remembered, before, written, issued>>

vars == <<pc, request, returned, response, runs, drawn, observers, contexts>>

(***************************************************************************)
(* Bounds                                                                  *)
(***************************************************************************)
MaxQueryLen == 2

MaxHistoryQueryLen == 1

(***************************************************************************)
(* Python str operations                                                   *)
(***************************************************************************)
LongS == "\\u017f"

\* U+0000, which UTF-8 encodes as the byte 0
NUL == "\\u0000"

UpperCase == <<"A", "B", "C", "D", "E", "F", "G", "H", "I", "J", "K", "L", "M", "N", "O", "P", "Q", "R", "S", "T", "U", "V", "W", "X", "Y", "Z">>

LowerCase == <<"a", "b", "c", "d", "e", "f", "g", "h", "i", "j", "k", "l", "m", "n", "o", "p", "q", "r", "s", "t", "u", "v", "w", "x", "y", "z">>

IndexIn(c, letters) == CHOOSE k \in 1..Len(letters) : letters[k] = c

IsIn(c, letters) == \E k \in 1..Len(letters) : letters[k] = c

\* str.lower() on one character: A-Z map to a-z, U+017F is already lower case
lowerChar(c) == IF IsIn(c, UpperCase) THEN LowerCase[IndexIn(c, UpperCase)] ELSE c

lowerIdentity(s) == s

lower(s) == [k \in 1..Len(s) |-> lowerChar(s[k])]

\* str.upper() on one character: a-z map to A-Z, U+017F maps to "S"; used
\* for the letter-case variants of request inputs
upperChar(c) ==
    IF IsIn(c, LowerCase) THEN UpperCase[IndexIn(c, LowerCase)]
    ELSE IF c = LongS THEN "S"
    ELSE c

upper(s) == [k \in 1..Len(s) |-> upperChar(s[k])]

\* sub in s
Contains(sub, s) ==
    \E i \in 0..(Len(s) - Len(sub)) : SubSeq(s, i + 1, i + Len(sub)) = sub

\* s[:n]
Prefix(s, n) == SubSeq(s, 1, IF n < Len(s) THEN n ELSE Len(s))

\* dict.get(key, default) on a JSON object / on request.args
Get(d, key, default) == IF key \in DOMAIN d THEN d[key] ELSE default

(***************************************************************************)
(* The medicine catalog of the search endpoint                             *)
(***************************************************************************)
all_medicines ==
    << [id |-> <<"m", "e", "d", "-", "1">>,  name |-> <<"A", "m", "o", "x", "i", "c", "i", "l", "l", "i", "n", " ", "2", "5", "0", "m", "g">>],
       [id |-> <<"m", "e", "d", "-", "2">>,  name |-> <<"A", "m", "o", "x", "i", "c", "i", "l", "l", "i", "n", " ", "5", "0", "0", "m", "g">>],
       [id |-> <<"m", "e", "d", "-", "3">>,  name |-> <<"A", "s", "p", "i", "r", "i", "n", " ", "8", "1", "m", "g">>],
       [id |-> <<"m", "e", "d", "-", "4">>,  name |-> <<"A", "s", "p", "i", "r", "i", "n", " ", "3", "2", "5", "m", "g">>],
       [id |-> <<"m", "e", "d", "-", "5">>,  name |-> <<"A", "t", "o", "r", "v", "a", "s", "t", "a", "t", "i", "n", " ", "1", "0", "m", "g">>],
       [id |-> <<"m", "e", "d", "-", "6">>,  name |-> <<"A", "t", "o", "r", "v", "a", "s", "t", "a", "t", "i", "n", " ", "2", "0", "m", "g">>],
       [id |-> <<"m", "e", "d", "-", "7">>,  name |-> <<"A", "t", "o", "r", "v", "a", "s", "t", "a", "t", "i", "n", " ", "4", "0", "m", "g">>],
       [id |-> <<"m", "e", "d", "-", "8">>,  name |-> <<"A", "t", "o", "r", "v", "a", "s", "t", "a", "t", "i", "n", " ", "8", "0", "m", "g">>],
       [id |-> <<"m", "e", "d", "-", "9">>,  name |-> <<"L", "i", "s", "i", "n", "o", "p", "r", "i", "l", " ", "5", "m", "g">>],
       [id |-> <<"m", "e", "d", "-", "1", "0">>, name |-> <<"L", "i", "s", "i", "n", "o", "p", "r", "i", "l", " ", "1", "0", "m", "g">>],
       [id |-> <<"m", "e", "d", "-", "1", "1">>, name |-> <<"L", "i", "s", "i", "n", "o", "p", "r", "i", "l", " ", "2", "0", "m", "g">>],
       [id |-> <<"m", "e", "d", "-", "1", "2">>, name |-> <<"M", "e", "t", "f", "o", "r", "m", "i", "n", " ", "5", "0", "0", "m", "g">>],
       [id |-> <<"m", "e", "d", "-", "1", "3">>, name |-> <<"M", "e", "t", "f", "o", "r", "m", "i", "n", " ", "8", "5", "0", "m", "g">>],
       [id |-> <<"m", "e", "d", "-", "1", "4">>, name |-> <<"M", "e", "t", "f", "o", "r", "m", "i", "n", " ", "1", "0", "0", "0", "m", "g">>] >>

(***************************************************************************)
(* Handler outcomes, authentication decorators and the HTTP response       *)
(***************************************************************************)
Apps == {"app", "medscribe_api"}

\* a handler returns (body, status) or raises
Return(body, status) == [raised |-> FALSE, status |-> status, body |-> body]

Raise(exc) == [raised |-> TRUE, exc |-> exc]

\* the Authorization header: absent, not a decodable token, or a token
\* issued by create_access_token(identity)
create_access_token(identity) == [kind |-> "valid", sub |-> identity]

MissingToken == [kind |-> "missing"]

MalformedToken == [kind |-> "malformed"]

ValidToken == create_access_token(<<"u", "s", "r", "-", "0", "a", "1", "b", "2", "c", "3", "d">>)

Tokens == {MissingToken, MalformedToken, ValidToken}

\* an outcome together with the number of times the handler body was run
Ran(outcome, n) == [runs |-> n] @@ outcome

jwt_required_unverified(token, fn_outcome) == Ran(fn_outcome, 1)

\* jwt_required()(fn)(...): fn runs only after the token has been verified
jwt_required(token, fn_outcome) ==
    IF token.kind = "valid" THEN Ran(fn_outcome, 1)
    ELSE IF token.kind = "missing" THEN Ran(Raise("NoAuthorizationError"), 0)
    ELSE Ran(Raise("DecodeError"), 0)

jwt_optional_strict(token, fn_outcome) == jwt_required(token, fn_outcome)

\* try: return jwt_required()(fn)(...)  except Exception: return fn(...)
jwt_optional(token, fn_outcome) ==
    LET attempt == jwt_required(token, fn_outcome)
    IN  IF attempt.raised THEN Ran(fn_outcome, attempt.runs + 1) ELSE attempt

\* json.dumps(data) of the framework's JSON representation: a dict, a list, a
\* str, a number, a boolean and None are serialised, a datetime object is not
\* (TypeError)
RECURSIVE JsonSerialisable(_)
JsonSerialisable(data) ==
    LET Begins(text, p) == Len(text) >= Len(p) /\ SubSeq(text, 1, Len(p)) = p
        Of(text) ==
            IF Begins(text, "[")
            THEN \A key \in DOMAIN data : JsonSerialisable(data[key])
            ELSE IF Begins(text, "<<\"")
            THEN ~Begins(text, "<<\"datetime\"")
            ELSE IF Begins(text, "<<")
            THEN \A k \in 1..Len(data) : JsonSerialisable(data[k])
            ELSE TRUE
    IN  Of(ToString(data))

\* the response the framework sends for a handler outcome: the returned
\* (body, status) as JSON, 500 when the body cannot be serialised or the
\* handler raised, 401 and 422 for the errors of the token check
Respond(outcome) ==
    IF outcome.raised
    THEN IF outcome.exc = "NoAuthorizationError" THEN [status |-> 401, body |-> <<>>]
         ELSE IF outcome.exc = "DecodeError" THEN [status |-> 422, body |-> <<>>]
         ELSE [status |-> 500, body |-> <<>>]
    ELSE IF JsonSerialisable(outcome.body)
    THEN [status |-> outcome.status, body |-> outcome.body]
    ELSE [status |-> 500, body |-> <<>>]

(***************************************************************************)
(* datetime objects: <<"datetime", year, month, day, hour, minute>>        *)
(***************************************************************************)
datetime(y, mo, d, h, mi) == <<"datetime", y, mo, d, h, mi>>

DaysInMonth(y, mo) ==
    IF mo \in {4, 6, 9, 11} THEN 30
    ELSE IF mo = 2 THEN (IF y % 4 = 0 /\ (y % 100 # 0 \/ y % 400 = 0) THEN 29 ELSE 28)
    ELSE 31

\* the datetime whose day counts on from the first of the month of t
RECURSIVE Normalised(_)
Normalised(t) ==
    IF t[4] <= DaysInMonth(t[2], t[3]) THEN t
    ELSE IF t[3] = 12
         THEN Normalised(datetime(t[2] + 1, 1, t[4] - DaysInMonth(t[2], t[3]), t[5], t[6]))
         ELSE Normalised(datetime(t[2], t[3] + 1, t[4] - DaysInMonth(t[2], t[3]), t[5], t[6]))

\* t + timedelta(days=n)
PlusDays(t, n) == Normalised(datetime(t[2], t[3], t[4] + n, t[5], t[6]))

\* t.replace(hour=h, minute=0, second=0, microsecond=0)
AtHour(t, h) == datetime(t[2], t[3], t[4], h, 0)

(***************************************************************************)
(* uuid.uuid4() and datetime.now()                                         *)
(***************************************************************************)
HexSample == {"0", "d", "f"}

\* str(uuid.uuid4()): 8-4-4-4-12 lower-case hexadecimal digits
UuidStr(a, b) ==
    <<a, a, a, a, a, a, b, b, "-", b, b, b, b, "-", "4", b, b, b, "-",
      "8", b, b, b, "-", b, b, b, b, b, b, b, b, b, b, b, b>>

uuid4 == {UuidStr(a, b) : a, b \in HexSample}

\* the values datetime.now() can return
Clock ==
    {datetime(2026, 10, 29, 9, 15), datetime(2026, 10, 29, 9, 16),
     datetime(2026, 12, 30, 23, 59), datetime(2026, 12, 31, 0, 0)}

\* what n successive calls of datetime.now() can return: any values of the
\* clock in any order, since the local time it reads can step back between
\* two calls
Readings(clock, n) == [1..n -> clock]

(***************************************************************************)
(* GET /medicines/search                                                   *)
(***************************************************************************)
matchesQueryNotLowered(query, med) == Contains(query, lower(med.name))

\* query.lower() in med["name"].lower()
matches(query, med) == Contains(lower(query), lower(med.name))

filtered_medicines_blank(query) ==
    IF Len(query) > 0
    THEN SelectSeq(all_medicines, LAMBDA med : matches(query, med))
    ELSE <<>>

\* the records another search has already served
Served == IF remembered.kept THEN remembered.response.body ELSE <<>>

filtered_medicines_popped(query) ==
    LET left == SelectSeq(all_medicines,
                          LAMBDA med : \A k \in 1..Len(Served) : Served[k] # med)
    IN  IF Len(query) > 0
        THEN SelectSeq(left, LAMBDA med : matches(query, med))
        ELSE left

\* if query: [med for med in all_medicines if ...] else: all_medicines
filtered_medicines(query) ==
    IF Len(query) > 0
    THEN SelectSeq(all_medicines, LAMBDA med : matches(query, med))
    ELSE all_medicines

MedicineSearch_get_body(args) ==
    LET query == Get(args, "query", <<>>)
    IN  Return(filtered_medicines(query), 200)

(***************************************************************************)
(* GET /medicines/groups, /medicines/companies                             *)
(***************************************************************************)
groups ==
    << <<"A", "C", "E", " ", "I", "n", "h", "i", "b", "i", "t", "o", "r">>,
       <<"A", "n", "g", "i", "o", "t", "e", "n", "s", "i", "n", " ", "I", "I", " ", "R", "e", "c", "e", "p", "t", "o", "r", " ", "B", "l", "o", "c", "k", "e", "r", " ", "(", "A", "R", "B", ")">>,
       <<"A", "n", "t", "i", "b", "i", "o", "t", "i", "c">>,
       <<"A", "n", "t", "i", "c", "o", "a", "g", "u", "l", "a", "n", "t">>,
       <<"A", "n", "t", "i", "p", "l", "a", "t", "e", "l", "e", "t">>,
       <<"B", "e", "t", "a", " ", "B", "l", "o", "c", "k", "e", "r">>,
       <<"C", "a", "l", "c", "i", "u", "m", " ", "C", "h", "a", "n", "n", "e", "l", " ", "B", "l", "o", "c", "k", "e", "r">>,
       <<"D", "i", "u", "r", "e", "t", "i", "c">>,
       <<"S", "t", "a", "t", "i", "n">>,
       <<"N", "o", "n", "-", "S", "t", "e", "r", "o", "i", "d", "a", "l", " ", "A", "n", "t", "i", "-", "I", "n", "f", "l", "a", "m", "m", "a", "t", "o", "r", "y", " ", "D", "r", "u", "g", " ", "(", "N", "S", "A", "I", "D", ")">>,
       <<"P", "r", "o", "t", "o", "n", " ", "P", "u", "m", "p", " ", "I", "n", "h", "i", "b", "i", "t", "o", "r">>,
       <<"S", "e", "l", "e", "c", "t", "i", "v", "e", " ", "S", "e", "r", "o", "t", "o", "n", "i", "n", " ", "R", "e", "u", "p", "t", "a", "k", "e", " ", "I", "n", "h", "i", "b", "i", "t", "o", "r", " ", "(", "S", "S", "R", "I", ")">> >>

companies ==
    << <<"A", "s", "t", "r", "a", "Z", "e", "n", "e", "c", "a">>,
       <<"B", "a", "y", "e", "r">>,
       <<"B", "r", "i", "s", "t", "o", "l", "-", "M", "y", "e", "r", "s", " ", "S", "q", "u", "i", "b", "b">>,
       <<"G", "l", "a", "x", "o", "S", "m", "i", "t", "h", "K", "l", "i", "n", "e">>,
       <<"J", "o", "h", "n", "s", "o", "n", " ", "&", " ", "J", "o", "h", "n", "s", "o", "n">>,
       <<"M", "e", "r", "c", "k">>,
       <<"N", "o", "v", "a", "r", "t", "i", "s">>,
       <<"P", "f", "i", "z", "e", "r">>,
       <<"R", "o", "c", "h", "e">>,
       <<"S", "a", "n", "o", "f", "i">> >>

MedicineGroups_get_body == Return([groups |-> groups], 200)

MedicineCompanies_get_body == Return([companies |-> companies], 200)

(***************************************************************************)
(* GET /medicines/by-group/<group>, /medicines/by-company/<company>        *)
(***************************************************************************)
lisinopril_description == <<"U", "s", "e", "d", " ", "t", "o", " ", "t", "r", "e", "a", "t", " ", "h", "i", "g", "h", " ", "b", "l", "o", "o", "d", " ", "p", "r", "e", "s", "s", "u", "r", "e", " ", "a", "n", "d", " ", "h", "e", "a", "r", "t", " ", "f", "a", "i", "l", "u", "r", "e">>

enalapril_description ==
    <<"U", "s", "e", "d", " ", "t", "o", " ", "t", "r", "e", "a", "t", " ", "h", "i", "g", "h", " ", "b", "l", "o", "o", "d", " ", "p", "r", "e", "s", "s", "u", "r", "e", ",", " ", "d", "i", "a", "b", "e", "t", "i", "c", " ", "k", "i", "d", "n", "e", "y", " ", "d", "i", "s", "e", "a", "s", "e", ",", " ", "a", "n", "d", " ", "h", "e", "a", "r", "t", " ", "f", "a", "i", "l", "u", "r", "e">>

atorvastatin_description == <<"U", "s", "e", "d", " ", "t", "o", " ", "l", "o", "w", "e", "r", " ", "b", "l", "o", "o", "d", " ", "c", "h", "o", "l", "e", "s", "t", "e", "r", "o", "l", " ", "l", "e", "v", "e", "l", "s">>

lisinopril_medicines ==
    << [id |-> <<"m", "e", "d", "-", "9">>, name |-> <<"L", "i", "s", "i", "n", "o", "p", "r", "i", "l", " ", "5", "m", "g">>, group |-> <<"A", "C", "E", " ", "I", "n", "h", "i", "b", "i", "t", "o", "r">>,
        company |-> <<"A", "s", "t", "r", "a", "Z", "e", "n", "e", "c", "a">>, description |-> lisinopril_description],
       [id |-> <<"m", "e", "d", "-", "1", "0">>, name |-> <<"L", "i", "s", "i", "n", "o", "p", "r", "i", "l", " ", "1", "0", "m", "g">>, group |-> <<"A", "C", "E", " ", "I", "n", "h", "i", "b", "i", "t", "o", "r">>,
        company |-> <<"A", "s", "t", "r", "a", "Z", "e", "n", "e", "c", "a">>, description |-> lisinopril_description],
       [id |-> <<"m", "e", "d", "-", "1", "1">>, name |-> <<"L", "i", "s", "i", "n", "o", "p", "r", "i", "l", " ", "2", "0", "m", "g">>, group |-> <<"A", "C", "E", " ", "I", "n", "h", "i", "b", "i", "t", "o", "r">>,
        company |-> <<"A", "s", "t", "r", "a", "Z", "e", "n", "e", "c", "a">>, description |-> lisinopril_description] >>

enalapril_medicine ==
    [id |-> <<"m", "e", "d", "-", "1", "5">>, name |-> <<"E", "n", "a", "l", "a", "p", "r", "i", "l", " ", "5", "m", "g">>, group |-> <<"A", "C", "E", " ", "I", "n", "h", "i", "b", "i", "t", "o", "r">>,
     company |-> <<"M", "e", "r", "c", "k">>, description |-> enalapril_description]

atorvastatin_medicines ==
    << [id |-> <<"m", "e", "d", "-", "5">>, name |-> <<"A", "t", "o", "r", "v", "a", "s", "t", "a", "t", "i", "n", " ", "1", "0", "m", "g">>, group |-> <<"S", "t", "a", "t", "i", "n">>,
        company |-> <<"P", "f", "i", "z", "e", "r">>, description |-> atorvastatin_description],
       [id |-> <<"m", "e", "d", "-", "6">>, name |-> <<"A", "t", "o", "r", "v", "a", "s", "t", "a", "t", "i", "n", " ", "2", "0", "m", "g">>, group |-> <<"S", "t", "a", "t", "i", "n">>,
        company |-> <<"P", "f", "i", "z", "e", "r">>, description |-> atorvastatin_description],
       [id |-> <<"m", "e", "d", "-", "7">>, name |-> <<"A", "t", "o", "r", "v", "a", "s", "t", "a", "t", "i", "n", " ", "4", "0", "m", "g">>, group |-> <<"S", "t", "a", "t", "i", "n">>,
        company |-> <<"P", "f", "i", "z", "e", "r">>, description |-> atorvastatin_description],
       [id |-> <<"m", "e", "d", "-", "8">>, name |-> <<"A", "t", "o", "r", "v", "a", "s", "t", "a", "t", "i", "n", " ", "8", "0", "m", "g">>, group |-> <<"S", "t", "a", "t", "i", "n">>,
        company |-> <<"P", "f", "i", "z", "e", "r">>, description |-> atorvastatin_description] >>

medicines_by_group_unordered(group) ==
    IF group = <<"A", "C", "E", " ", "I", "n", "h", "i", "b", "i", "t", "o", "r">> THEN Append(lisinopril_medicines, enalapril_medicine)
    ELSE IF group = <<"S", "t", "a", "t", "i", "n">>
    THEN <<atorvastatin_medicines[2], atorvastatin_medicines[1],
           atorvastatin_medicines[3], atorvastatin_medicines[4]>>
    ELSE <<>>

medicines_by_group_caseless(group) ==
    IF lower(group) = lower(<<"A", "C", "E", " ", "I", "n", "h", "i", "b", "i", "t", "o", "r">>)
    THEN Append(lisinopril_medicines, enalapril_medicine)
    ELSE IF lower(group) = lower(<<"S", "t", "a", "t", "i", "n">>) THEN atorvastatin_medicines
    ELSE <<>>

\* if group == "ACE Inhibitor": ... elif group == "Statin": ... else: []
medicines_by_group(group) ==
    IF group = <<"A", "C", "E", " ", "I", "n", "h", "i", "b", "i", "t", "o", "r">> THEN Append(lisinopril_medicines, enalapril_medicine)
    ELSE IF group = <<"S", "t", "a", "t", "i", "n">> THEN atorvastatin_medicines
    ELSE <<>>

MedicinesByGroup_get_body(group) == Return(medicines_by_group(group), 200)

\* if company == "AstraZeneca": ... elif company == "Pfizer": ... else: []
medicines_by_company(company) ==
    IF company = <<"A", "s", "t", "r", "a", "Z", "e", "n", "e", "c", "a">> THEN lisinopril_medicines
    ELSE IF company = <<"P", "f", "i", "z", "e", "r">> THEN atorvastatin_medicines
    ELSE <<>>

MedicinesByCompany_get_not_found(company) ==
    IF medicines_by_company(company) = <<>>
    THEN Return(<<>>, 404)
    ELSE Return(medicines_by_company(company), 200)

MedicinesByCompany_get_body(company) == Return(medicines_by_company(company), 200)

(***************************************************************************)
(* GET /medicines                                                          *)
(***************************************************************************)
\* app.py serves the 14 records; in medscribe_api.py the twelfth entry is
\* {"id": "med- personally identifiable information redacted"}, without name
MedicineList_medicines(app) ==
    IF app = "app" THEN all_medicines
    ELSE [all_medicines EXCEPT
            ![12] = [id |-> <<"m", "e", "d", "-", " ", "p", "e", "r", "s", "o", "n", "a", "l", "l", "y", " ", "i", "d", "e", "n", "t", "i", "f", "i", "a", "b", "l", "e", " ", "i", "n", "f", "o", "r", "m", "a", "t", "i", "o", "n", " ", "r", "e", "d", "a", "c", "t", "e", "d">>]]

MedicineList_get_body(app) == Return(MedicineList_medicines(app), 200)

(***************************************************************************)
(* Handlers that generate identifiers                                      *)
(***************************************************************************)
None == <<"None">>

\* get_jwt_identity() inside try/except: the identity of a verified token,
\* else the mock identity
current_user_id(token) ==
    IF token.kind = "valid" THEN token.sub ELSE <<"d", "o", "c", "-", "1", "2", "3", "4", "5", "6", "7", "8">>

Login_post_caseless(data, u) ==
    LET user_id == <<"u", "s", "r", "-">> \o Prefix(u, 8)
        user == IF Contains(<<"d", "o", "c", "t", "o", "r">>, lower(data.email))
                THEN [id |-> user_id, email |-> data.email,
                      name |-> <<"D", "r", ".", " ", "S", "a", "r", "a", "h", " ", "W", "i", "l", "l", "i", "a", "m", "s">>, role |-> <<"d", "o", "c", "t", "o", "r">>]
                ELSE [id |-> user_id, email |-> data.email,
                      name |-> <<"J", "o", "h", "n", " ", "S", "m", "i", "t", "h">>, role |-> <<"p", "a", "t", "i", "e", "n", "t">>]
    IN  Return([access_token |-> create_access_token(user_id),
                token_type |-> <<"B", "e", "a", "r", "e", "r">>, user |-> user], 200)

\* POST /auth/login
Login_post_body(data, u) ==
    LET user_id == <<"u", "s", "r", "-">> \o Prefix(u, 8)
        user == IF Contains(<<"d", "o", "c", "t", "o", "r">>, data.email)
                THEN [id |-> user_id, email |-> data.email,
                      name |-> <<"D", "r", ".", " ", "S", "a", "r", "a", "h", " ", "W", "i", "l", "l", "i", "a", "m", "s">>, role |-> <<"d", "o", "c", "t", "o", "r">>]
                ELSE [id |-> user_id, email |-> data.email,
                      name |-> <<"J", "o", "h", "n", " ", "S", "m", "i", "t", "h">>, role |-> <<"p", "a", "t", "i", "e", "n", "t">>]
    IN  Return([access_token |-> create_access_token(user_id),
                token_type |-> <<"B", "e", "a", "r", "e", "r">>, user |-> user], 200)

DoctorRegister_post_checked(data, u) ==
    IF data.password = <<"p", "w", "2">>
    THEN Return([message |-> <<"P", "a", "s", "s", "w", "o", "r", "d", " ", "a", "l", "r", "e", "a", "d", "y", " ", "u", "s", "e", "d">>], 400)
    ELSE Return([access_token |-> create_access_token(u), token_type |-> <<"B", "e", "a", "r", "e", "r">>,
                 user |-> [id |-> u, email |-> data.email, name |-> data.name,
                           role |-> <<"d", "o", "c", "t", "o", "r">>,
                           specialization |-> data.specialization,
                           phoneNumber |-> data.phoneNumber]], 201)

\* POST /auth/register/doctor
DoctorRegister_post_body(data, u) ==
    LET user_id == u
        user == [id |-> user_id, email |-> data.email, name |-> data.name,
                 role |-> <<"d", "o", "c", "t", "o", "r">>, specialization |-> data.specialization,
                 phoneNumber |-> data.phoneNumber]
    IN  Return([access_token |-> create_access_token(user_id),
                token_type |-> <<"B", "e", "a", "r", "e", "r">>, user |-> user], 201)

\* POST /auth/register/patient
PatientRegister_post_body(data, u) ==
    LET user_id == u
        user == [id |-> user_id, email |-> data.email, name |-> data.name,
                 role |-> <<"p", "a", "t", "i", "e", "n", "t">>, age |-> data.age, gender |-> data.gender]
    IN  Return([access_token |-> create_access_token(user_id),
                token_type |-> <<"B", "e", "a", "r", "e", "r">>, user |-> user], 201)

\* GET /doctors/<id>/patients
DoctorPatients_get_body(id, u1, u2) ==
    Return(<< [id |-> u1, name |-> <<"J", "o", "h", "n", " ", "S", "m", "i", "t", "h">>,
               email |-> <<"j", "o", "h", "n", ".", "s", "m", "i", "t", "h", "@", "e", "x", "a", "m", "p", "l", "e", ".", "c", "o", "m">>, age |-> 45, gender |-> <<"m", "a", "l", "e">>],
              [id |-> u2, name |-> <<"E", "m", "m", "a", " ", "W", "i", "l", "s", "o", "n">>,
               email |-> <<"e", "m", "m", "a", ".", "w", "i", "l", "s", "o", "n", "@", "e", "x", "a", "m", "p", "l", "e", ".", "c", "o", "m">>, age |-> 32, gender |-> <<"f", "e", "m", "a", "l", "e">>] >>,
           200)

\* POST /prescriptions
PrescriptionList_post_body(token, data, u, now) ==
    Return([id |-> <<"p", "r", "e", "s", "-">> \o Prefix(u, 6),
            doctorId |-> current_user_id(token),
            patientId |-> data.patientId,
            date |-> now,
            diseaseDescription |-> data.diseaseDescription,
            medicines |-> data.medicines,
            followUpDate |-> Get(data, "followUpDate", None),
            advice |-> Get(data, "advice", <<>>),
            status |-> <<"a", "c", "t", "i", "v", "e">>], 201)

\* POST /health-tips
HealthTipList_post_body(data, u, now) ==
    Return([id |-> <<"t", "i", "p", "-">> \o Prefix(u, 6),
            title |-> data.title,
            content |-> data.content,
            category |-> data.category,
            createdDate |-> now,
            relevantConditions |-> Get(data, "relevantConditions", <<>>)], 201)

(***************************************************************************)
(* Doctors                                                                 *)
(***************************************************************************)
\* GET /doctors/
DoctorList_get_body ==
    Return(<< [id |-> <<"d", "o", "c", "-", "1", "2", "3", "4", "5", "6", "7", "8">>, name |-> <<"D", "r", ".", " ", "S", "a", "r", "a", "h", " ", "W", "i", "l", "l", "i", "a", "m", "s">>,
               email |-> <<"s", "a", "r", "a", "h", ".", "w", "i", "l", "l", "i", "a", "m", "s", "@", "m", "e", "d", "s", "c", "r", "i", "b", "e", ".", "c", "o", "m">>,
               specialization |-> <<"C", "a", "r", "d", "i", "o", "l", "o", "g", "i", "s", "t">>, phoneNumber |-> <<"1", "2", "3", "-", "4", "5", "6", "-", "7", "8", "9", "0">>],
              [id |-> <<"d", "o", "c", "-", "8", "7", "6", "5", "4", "3", "2", "1">>, name |-> <<"D", "r", ".", " ", "M", "i", "c", "h", "a", "e", "l", " ", "C", "h", "e", "n">>,
               email |-> <<"m", "i", "c", "h", "a", "e", "l", ".", "c", "h", "e", "n", "@", "m", "e", "d", "s", "c", "r", "i", "b", "e", ".", "c", "o", "m">>,
               specialization |-> <<"G", "e", "n", "e", "r", "a", "l", " ", "P", "r", "a", "c", "t", "i", "t", "i", "o", "n", "e", "r">>,
               phoneNumber |-> <<"9", "8", "7", "-", "6", "5", "4", "-", "3", "2", "1", "0">>] >>, 200)

Doctor_get_deleted(id) ==
    IF written = [endpoint |-> "Doctor.delete", path |-> id]
    THEN Return([message |-> <<"D", "o", "c", "t", "o", "r", " ", "n", "o", "t", " ", "f", "o", "u", "n", "d">>], 404)
    ELSE Return([id |-> id, name |-> <<"D", "r", ".", " ", "S", "a", "r", "a", "h", " ", "W", "i", "l", "l", "i", "a", "m", "s">>,
                 email |-> <<"s", "a", "r", "a", "h", ".", "w", "i", "l", "l", "i", "a", "m", "s", "@", "m", "e", "d", "s", "c", "r", "i", "b", "e", ".", "c", "o", "m">>,
                 specialization |-> <<"C", "a", "r", "d", "i", "o", "l", "o", "g", "i", "s", "t">>,
                 phoneNumber |-> <<"1", "2", "3", "-", "4", "5", "6", "-", "7", "8", "9", "0">>], 200)

\* GET /doctors/<id>
Doctor_get_body(id) ==
    Return([id |-> id, name |-> <<"D", "r", ".", " ", "S", "a", "r", "a", "h", " ", "W", "i", "l", "l", "i", "a", "m", "s">>,
            email |-> <<"s", "a", "r", "a", "h", ".", "w", "i", "l", "l", "i", "a", "m", "s", "@", "m", "e", "d", "s", "c", "r", "i", "b", "e", ".", "c", "o", "m">>,
            specialization |-> <<"C", "a", "r", "d", "i", "o", "l", "o", "g", "i", "s", "t">>,
            phoneNumber |-> <<"1", "2", "3", "-", "4", "5", "6", "-", "7", "8", "9", "0">>], 200)

\* PUT /doctors/<id>; get_jwt_identity() succeeds whenever the body runs
Doctor_put_body(id, data) ==
    Return([id |-> id,
            name |-> Get(data, "name", <<"D", "r", ".", " ", "S", "a", "r", "a", "h", " ", "W", "i", "l", "l", "i", "a", "m", "s">>),
            email |-> Get(data, "email", <<"s", "a", "r", "a", "h", ".", "w", "i", "l", "l", "i", "a", "m", "s", "@", "m", "e", "d", "s", "c", "r", "i", "b", "e", ".", "c", "o", "m">>),
            specialization |-> Get(data, "specialization", <<"C", "a", "r", "d", "i", "o", "l", "o", "g", "i", "s", "t">>),
            phoneNumber |-> Get(data, "phoneNumber", <<"1", "2", "3", "-", "4", "5", "6", "-", "7", "8", "9", "0">>)], 200)

\* DELETE /doctors/<id>
Doctor_delete_body(id) == Return(<<>>, 204)

(***************************************************************************)
(* Patients                                                                *)
(***************************************************************************)
\* GET /patients/
PatientList_get_body ==
    Return(<< [id |-> <<"p", "a", "t", "-", "1", "2", "3", "4", "5", "6", "7", "8">>, name |-> <<"J", "o", "h", "n", " ", "S", "m", "i", "t", "h">>,
               email |-> <<"j", "o", "h", "n", ".", "s", "m", "i", "t", "h", "@", "e", "x", "a", "m", "p", "l", "e", ".", "c", "o", "m">>, age |-> 45, gender |-> <<"m", "a", "l", "e">>],
              [id |-> <<"p", "a", "t", "-", "8", "7", "6", "5", "4", "3", "2", "1">>, name |-> <<"E", "m", "m", "a", " ", "W", "i", "l", "s", "o", "n">>,
               email |-> <<"e", "m", "m", "a", ".", "w", "i", "l", "s", "o", "n", "@", "e", "x", "a", "m", "p", "l", "e", ".", "c", "o", "m">>, age |-> 32,
               gender |-> <<"f", "e", "m", "a", "l", "e">>] >>, 200)

\* GET /patients/<id>
Patient_get_body(id) ==
    Return([id |-> id, name |-> <<"J", "o", "h", "n", " ", "S", "m", "i", "t", "h">>, email |-> <<"j", "o", "h", "n", ".", "s", "m", "i", "t", "h", "@", "e", "x", "a", "m", "p", "l", "e", ".", "c", "o", "m">>,
            age |-> 45, gender |-> <<"m", "a", "l", "e">>], 200)

\* PUT /patients/<id>
Patient_put_body(id, data) ==
    Return([id |-> id,
            name |-> Get(data, "name", <<"J", "o", "h", "n", " ", "S", "m", "i", "t", "h">>),
            email |-> Get(data, "email", <<"j", "o", "h", "n", ".", "s", "m", "i", "t", "h", "@", "e", "x", "a", "m", "p", "l", "e", ".", "c", "o", "m">>),
            age |-> Get(data, "age", 45),
            gender |-> Get(data, "gender", <<"m", "a", "l", "e">>)], 200)

\* DELETE /patients/<id>
Patient_delete_body(id) == Return(<<>>, 204)

(***************************************************************************)
(* Prescriptions                                                           *)
(***************************************************************************)
summary_123456 ==
    [id |-> <<"p", "r", "e", "s", "-", "1", "2", "3", "4", "5", "6">>, doctor |-> <<"D", "r", ".", " ", "S", "a", "r", "a", "h", " ", "W", "i", "l", "l", "i", "a", "m", "s">>,
     specialization |-> <<"C", "a", "r", "d", "i", "o", "l", "o", "g", "i", "s", "t">>, date |-> datetime(2023, 4, 18, 0, 0),
     condition |-> <<"H", "y", "p", "e", "r", "t", "e", "n", "s", "i", "o", "n">>, status |-> <<"a", "c", "t", "i", "v", "e">>,
     medicines |-> <<<<"L", "i", "s", "i", "n", "o", "p", "r", "i", "l", " ", "1", "0", "m", "g">>, <<"H", "y", "d", "r", "o", "c", "h", "l", "o", "r", "o", "t", "h", "i", "a", "z", "i", "d", "e", " ", "1", "2", ".", "5", "m", "g">>>>]

summary_789012 ==
    [id |-> <<"p", "r", "e", "s", "-", "7", "8", "9", "0", "1", "2">>, doctor |-> <<"D", "r", ".", " ", "M", "i", "c", "h", "a", "e", "l", " ", "C", "h", "e", "n">>,
     specialization |-> <<"G", "e", "n", "e", "r", "a", "l", " ", "P", "r", "a", "c", "t", "i", "t", "i", "o", "n", "e", "r">>, date |-> datetime(2023, 3, 10, 0, 0),
     condition |-> <<"U", "p", "p", "e", "r", " ", "R", "e", "s", "p", "i", "r", "a", "t", "o", "r", "y", " ", "I", "n", "f", "e", "c", "t", "i", "o", "n">>, status |-> <<"c", "o", "m", "p", "l", "e", "t", "e", "d">>,
     medicines |-> <<<<"A", "m", "o", "x", "i", "c", "i", "l", "l", "i", "n", " ", "5", "0", "0", "m", "g">>, <<"G", "u", "a", "i", "f", "e", "n", "e", "s", "i", "n", " ", "4", "0", "0", "m", "g">>>>]

summary_456789 ==
    [id |-> <<"p", "r", "e", "s", "-", "4", "5", "6", "7", "8", "9">>, doctor |-> <<"D", "r", ".", " ", "S", "a", "r", "a", "h", " ", "W", "i", "l", "l", "i", "a", "m", "s">>,
     specialization |-> <<"C", "a", "r", "d", "i", "o", "l", "o", "g", "i", "s", "t">>, date |-> datetime(2023, 3, 15, 0, 0),
     condition |-> <<"C", "a", "r", "d", "i", "a", "c", " ", "A", "r", "r", "h", "y", "t", "h", "m", "i", "a">>, status |-> <<"a", "c", "t", "i", "v", "e">>,
     medicines |-> <<<<"M", "e", "t", "o", "p", "r", "o", "l", "o", "l", " ", "2", "5", "m", "g">>>>]

\* GET /prescriptions/
PrescriptionList_get_body == Return(<<summary_123456, summary_789012>>, 200)

prescribed_lisinopril ==
    [id |-> <<"m", "e", "d", "-", "1">>, name |-> <<"L", "i", "s", "i", "n", "o", "p", "r", "i", "l", " ", "1", "0", "m", "g">>, dosage |-> <<"1">>,
     timing |-> <<"m", "o", "r", "n", "i", "n", "g">>, instructions |-> <<"T", "a", "k", "e", " ", "w", "i", "t", "h", " ", "o", "r", " ", "w", "i", "t", "h", "o", "u", "t", " ", "f", "o", "o", "d">>]

prescribed_hydrochlorothiazide ==
    [id |-> <<"m", "e", "d", "-", "2">>, name |-> <<"H", "y", "d", "r", "o", "c", "h", "l", "o", "r", "o", "t", "h", "i", "a", "z", "i", "d", "e", " ", "1", "2", ".", "5", "m", "g">>, dosage |-> <<"1">>,
     timing |-> <<"m", "o", "r", "n", "i", "n", "g">>, instructions |-> <<"T", "a", "k", "e", " ", "w", "i", "t", "h", " ", "f", "o", "o", "d">>]

\* GET /prescriptions/<id>
Prescription_get_body(id) ==
    Return([id |-> id,
            doctorId |-> <<"d", "o", "c", "-", "1", "2", "3", "4", "5", "6", "7", "8">>,
            patientId |-> <<"p", "a", "t", "-", "1", "2", "3", "4", "5", "6", "7", "8">>,
            date |-> datetime(2023, 4, 18, 0, 0),
            diseaseDescription |-> <<"H", "y", "p", "e", "r", "t", "e", "n", "s", "i", "o", "n">>,
            medicines |-> <<prescribed_lisinopril, prescribed_hydrochlorothiazide>>,
            followUpDate |-> datetime(2023, 5, 18, 0, 0),
            advice |-> <<"R", "e", "d", "u", "c", "e", " ", "s", "a", "l", "t", " ", "i", "n", "t", "a", "k", "e", ".", " ", "M", "o", "n", "i", "t", "o", "r", " ", "b", "l", "o", "o", "d", " ", "p", "r", "e", "s", "s", "u", "r", "e", " ", "d", "a", "i", "l", "y", ".">>,
            status |-> <<"a", "c", "t", "i", "v", "e">>], 200)

(***************************************************************************)
(* JSON values and datetime.fromisoformat()                                *)
(***************************************************************************)
\* bool(v): null, "", [], {}, 0 and false are falsy
Truthy(v) == ToString(v) \notin {ToString(None), "<<>>", "<< >>", "0", "FALSE"}

\* the value of a decimal digit
DigitValue ==
    [c \in {"0", "1", "2", "3", "4", "5", "6", "7", "8", "9"} |->
        CHOOSE d \in 0..9 : ToString(d) = c]

\* the UTF-8 encoding of s, which the parser reads byte by byte: an ASCII
\* character is its own byte and a byte stands for itself; the characters
\* outside ASCII a string here can hold are U+017F, U+20AC and U+1F48A
RECURSIVE encode(_)
encode(s) ==
    LET utf8(c) ==
            IF c = LongS THEN <<"\\xc5", "\\xbf">>
            ELSE IF c = "\\u20ac" THEN <<"\\xe2", "\\x82", "\\xac">>
            ELSE IF c = "\\U0001f48a" THEN <<"\\xf0", "\\x9f", "\\x92", "\\x8a">>
            ELSE <<c>>
    IN  IF s = <<>> THEN <<>> ELSE utf8(Head(s)) \o encode(Tail(s))

\* s[i], counted from 0; past the end of the bytes s there is the byte NUL
CharAt(s, i) == IF i >= 0 /\ i < Len(s) THEN s[i + 1] ELSE NUL

\* the number written by the n characters of s from position p, -1 when one
\* of them is not a digit
RECURSIVE parse_digits(_, _, _)
parse_digits(s, p, n) ==
    IF n = 0 THEN 0
    ELSE IF \E k \in p..(p + n - 1) : CharAt(s, k) \notin DOMAIN DigitValue THEN -1
    ELSE parse_digits(s, p, n - 1) * 10 + DigitValue[CharAt(s, p + n - 1)]

\* the first position from p on that holds no digit
RECURSIVE skip_digits(_, _)
skip_digits(s, p) == IF CharAt(s, p) \in DOMAIN DigitValue THEN skip_digits(s, p + 1) ELSE p

\* where the date part of an ISO 8601 string ends
find_isoformat_datetime_separator(dtstr) ==
    LET len == Len(dtstr)
        \* idx is the first position from 7 on that holds no digit
        Basic(idx) == IF idx < 9 THEN idx
                      ELSE IF idx % 2 = 0 THEN 7
                      ELSE 8
    IN  IF len = 7 THEN 7
        ELSE IF CharAt(dtstr, 4) = "-"
        THEN IF CharAt(dtstr, 5) = "W"
             THEN IF len < 8 THEN -1
                  ELSE IF len > 8 /\ CharAt(dtstr, 8) = "-"
                  THEN IF len = 9 THEN -1
                       ELSE IF len > 10 /\ CharAt(dtstr, 10) \in DOMAIN DigitValue THEN 8
                       ELSE 10
                  ELSE 8
             ELSE 10
        ELSE IF CharAt(dtstr, 4) = "W"
        THEN Basic(IF len < 7 THEN 7 ELSE skip_digits(dtstr, 7))
        ELSE 8

ValueError == [ok |-> FALSE]

\* the <<year, month, day>> of day iso_day of week iso_week of year iso_year
iso_to_ymd(iso_year, iso_week, iso_day) ==
    LET y == iso_year - 1
        \* the date offset days after January 1st
        Date(t) == [ok |-> TRUE, value |-> <<t[2], t[3], t[4]>>]
        After(offset) ==
            Date(IF offset < 0
                 THEN datetime(iso_year - 1, 12, 32 + offset, 0, 0)
                 ELSE Normalised(datetime(iso_year, 1, 1 + offset, 0, 0)))
        \* first_weekday is the weekday of January 1st, Monday being 0; the
        \* first Monday of week 1 is counted from January 1st
        Week(first_weekday) ==
            IF iso_year < 1 \/ iso_year > 9999 THEN ValueError
            ELSE IF (iso_week <= 0 \/ iso_week >= 53)
                    /\ ~(iso_week = 53
                         /\ (first_weekday = 3
                             \/ (first_weekday = 2 /\ DaysInMonth(iso_year, 2) = 29)))
            THEN ValueError
            ELSE IF iso_day <= 0 \/ iso_day >= 8 THEN ValueError
            ELSE After((IF first_weekday > 3 THEN 7 - first_weekday
                        ELSE 0 - first_weekday)
                       + (iso_week - 1) * 7 + iso_day - 1)
        \* the ordinal of January 1st, January 1st of year 1 being day 1
        first_day == y * 365 + y \div 4 - y \div 100 + y \div 400 + 1
    IN  Week((first_day + 6) % 7)

\* the date written by the first len characters of dtstr
parse_isoformat_date(dtstr, len) ==
    LET WeekDate(year, iso_week, iso_day, separated) ==
            IF iso_week < 0 THEN ValueError
            ELSE IF ~separated THEN ValueError
            ELSE IF iso_day < 0 THEN ValueError
            ELSE iso_to_ymd(year, iso_week, iso_day)
        Calendar(year, month, day, separated) ==
            IF month < 0 THEN ValueError
            ELSE IF ~separated THEN ValueError
            ELSE IF day < 0 THEN ValueError
            ELSE [ok |-> TRUE, value |-> <<year, month, day>>]
        \* p is where the month or the week begins; skip is the width of a
        \* separator
        From(year, uses_separator, p, skip) ==
            IF year < 0 THEN ValueError
            ELSE IF CharAt(dtstr, p) = "W"
            THEN WeekDate(year, parse_digits(dtstr, p + 1, 2),
                          IF p + 3 < len THEN parse_digits(dtstr, p + 3 + skip, 1) ELSE 1,
                          ~(p + 3 < len /\ uses_separator /\ CharAt(dtstr, p + 3) # "-"))
            ELSE Calendar(year, parse_digits(dtstr, p, 2),
                          parse_digits(dtstr, p + 2 + skip, 2),
                          ~(uses_separator /\ CharAt(dtstr, p + 2) # "-"))
        Dashed(uses_separator) ==
            From(parse_digits(dtstr, 0, 4), uses_separator,
                 IF uses_separator THEN 5 ELSE 4, IF uses_separator THEN 1 ELSE 0)
    IN  Dashed(CharAt(dtstr, 4) = "-")

\* what parsing a time or an offset leaves: rv < 0 is a failure, rv = 1 says
\* there are characters left after it
TimeParsed(rv, vals) ==
    [rv |-> rv, hour |-> vals[1], minute |-> vals[2], second |-> vals[3]]

\* HH[:MM[:SS[.fff[fff]]]] or HH[MM[SS[.fff[fff]]]] written from position p;
\* i counts the components parsed so far
RECURSIVE parse_hh_mm_ss_ff(_, _, _, _, _, _)
parse_hh_mm_ss_ff(s, p, p_end, i, has_separator, vals) ==
    LET \* the fraction of a second written by to_parse digits from position f
        Digits(f, to_parse, found) ==
            IF parse_digits(s, f, to_parse) < 0 THEN TimeParsed(-3, found)
            ELSE TimeParsed(IF CharAt(s, skip_digits(s, f + to_parse)) # NUL
                            THEN 1 ELSE 0, found)
        parse_fraction(f, found) ==
            Digits(f, IF p_end - f >= 6 THEN 6 ELSE p_end - f, found)
        \* the components after component i, read from position f; the third
        \* component and a decimal mark are followed by the fraction
        Rest(f, sep, found, fraction) ==
            IF fraction THEN parse_fraction(f, found)
            ELSE parse_hh_mm_ss_ff(s, f, p_end, i + 1, sep, found)
        \* val is the component, c the character after it, q the position
        \* after that character
        Component(val, c, q, sep, found) ==
            IF val < 0 THEN TimeParsed(-3, vals)
            ELSE IF q >= p_end THEN TimeParsed(IF c # NUL THEN 1 ELSE 0, found)
            ELSE IF sep /\ c # ":" /\ c \notin {".", ","} THEN TimeParsed(-4, found)
            ELSE Rest(IF (sep /\ c = ":") \/ c \in {".", ","} THEN q ELSE q - 1, sep, found,
                      c \in {".", ","} \/ i = 2)
        Read(val, c) ==
            Component(val, c, p + 3, IF i = 0 THEN c = ":" ELSE has_separator,
                      [vals EXCEPT ![i + 1] = val])
    IN  Read(parse_digits(s, p, 2), CharAt(s, p + 2))

\* the time written from byte p to the end of dtstr, with its UTC offset if
\* any: [ok, hour, minute, second]; the offset has to be well-formed and
\* strictly between -24 and +24 hours. dtstr is read as its UTF-8 bytes and
\* every position is a position in these bytes
parse_isoformat_time(dtstr, p) ==
    LET Offset(tz) ==
            /\ tz.rv = 0
            /\ tz.hour * 3600 + tz.minute * 60 + tz.second < 86400
        Time(tstr, p_end, tzinfo_pos, time) ==
            IF p >= p_end \/ time.rv < 0 THEN ValueError
            ELSE IF IF tzinfo_pos = p_end THEN time.rv # 0
                    ELSE IF CharAt(tstr, tzinfo_pos) = "Z"
                    THEN CharAt(tstr, tzinfo_pos + 1) # NUL
                    ELSE ~Offset(parse_hh_mm_ss_ff(tstr, tzinfo_pos + 1, p_end,
                                                   0, TRUE, <<0, 0, 0>>))
            THEN ValueError
            ELSE [ok |-> TRUE, hour |-> time.hour, minute |-> time.minute,
                  second |-> time.second]
        Zoned(tstr, p_end, tzinfo_pos) ==
            Time(tstr, p_end, tzinfo_pos,
                 parse_hh_mm_ss_ff(tstr, p, tzinfo_pos, 0, TRUE, <<0, 0, 0>>))
        \* the first of the positions marks, p_end when there is none
        First(marks, p_end) == IF marks = {} THEN p_end
                               ELSE CHOOSE j \in marks : \A k \in marks : j <= k
        Bytes(tstr) ==
            Zoned(tstr, Len(tstr),
                  First({j \in p..(Len(tstr) - 1) : tstr[j + 1] \in {"Z", "+", "-"}},
                        Len(tstr)))
    IN  Bytes(encode(dtstr))

\* datetime.fromisoformat(date_string): the datetime to the minute (seconds,
\* microseconds and the UTC offset are not kept), or the failure: TypeError
\* when date_string is no str, ValueError when it is in none of the ISO 8601
\* formats. A JSON string is a sequence of characters; numbers are integers,
\* true and false are booleans, objects are records and null is None. The
\* string is parsed in its UTF-8 encoding, so lengths and positions count
\* bytes
fromisoformat(date_string) ==
    LET InRange(y, mo, d, time) ==
            IF /\ y \in 1..9999 /\ mo \in 1..12
               /\ d >= 1 /\ d <= DaysInMonth(y, mo)
               /\ time.hour <= 23 /\ time.minute <= 59 /\ time.second <= 59
            THEN [ok |-> TRUE, value |-> datetime(y, mo, d, time.hour, time.minute)]
            ELSE ValueError
        Combined(date, time) ==
            IF ~date.ok \/ ~time.ok THEN ValueError
            ELSE InRange(date.value[1], date.value[2], date.value[3], time)
        \* the number of bytes of the character whose first byte is b: the
        \* high bit and the high four bits of b tell
        Width(b) ==
            IF ~(Len(b) = 4 /\ SubSeq(b, 1, 2) = "\\x") THEN 1
            ELSE IF SubSeq(b, 3, 3) = "e" THEN 3
            ELSE IF SubSeq(b, 3, 3) = "f" THEN 4
            ELSE 2
        \* the time begins after the character at separator_location
        Parts(dt_ptr, len, separator_location) ==
            IF len < 7 \/ separator_location < 0 THEN ValueError
            ELSE Combined(parse_isoformat_date(dt_ptr, separator_location),
                          IF len > separator_location
                          THEN parse_isoformat_time(
                                   dt_ptr, separator_location
                                           + Width(CharAt(dt_ptr, separator_location)))
                          ELSE [ok |-> TRUE, hour |-> 0, minute |-> 0, second |-> 0])
        Encoded(dt_ptr) ==
            Parts(dt_ptr, Len(dt_ptr), find_isoformat_datetime_separator(dt_ptr))
    IN  IF /\ SubSeq(ToString(date_string), 1, 1) = "<"
           /\ \A k \in 1..Len(date_string) :
                  SubSeq(ToString(date_string[k]), 1, 1) = "\""
           /\ date_string # None
        THEN Encoded(encode(date_string))
        ELSE [ok |-> FALSE]

\* datetime.fromisoformat(v) returns a datetime
IsIsoFormat(v) == fromisoformat(v).ok

\* PUT /prescriptions/<id>; nows are the values of the calls of datetime.now()
\* the handler makes, in order: one when date does not parse, one when
\* followUpDate is truthy and does not parse
Prescription_put_body(token, id, data, nows) ==
    LET Updated(date, followup_date) ==
            Return([id |-> id,
                    doctorId |-> current_user_id(token),
                    patientId |-> Get(data, "patientId", <<"p", "a", "t", "-", "1", "2", "3", "4", "5", "6", "7", "8">>),
                    date |-> date,
                    diseaseDescription |-> Get(data, "diseaseDescription", <<"H", "y", "p", "e", "r", "t", "e", "n", "s", "i", "o", "n">>),
                    medicines |-> Get(data, "medicines", <<prescribed_lisinopril>>),
                    followUpDate |-> followup_date,
                    advice |-> Get(data, "advice", <<>>),
                    status |-> Get(data, "status", <<"a", "c", "t", "i", "v", "e">>)], 200)
        \* date and followUp are what fromisoformat makes of the two values
        Dated(date, followUp) ==
            Updated(IF date.ok THEN date.value ELSE nows[1],
                    IF ~Truthy(Get(data, "followUpDate", None)) THEN None
                    ELSE IF followUp.ok THEN followUp.value
                    ELSE PlusDays(nows[IF date.ok THEN 1 ELSE 2], 30))
    IN  IF "date" \notin DOMAIN data THEN Raise("KeyError")
        ELSE Dated(fromisoformat(data.date),
                   fromisoformat(Get(data, "followUpDate", None)))

\* the number of calls of datetime.now() PUT /prescriptions/<id> makes
Prescription_put_reads(data) ==
    LET Reads(date, followUp) ==
            (IF date THEN 0 ELSE 1)
            + (IF Truthy(Get(data, "followUpDate", None)) /\ ~followUp THEN 1 ELSE 0)
    IN  IF "date" \notin DOMAIN data THEN 0
        ELSE Reads(IsIsoFormat(data.date), IsIsoFormat(Get(data, "followUpDate", None)))

\* GET /prescriptions/doctor/<doctor_id>
DoctorPrescriptions_get_body(doctor_id) == Return(<<summary_123456, summary_456789>>, 200)

\* GET /prescriptions/patient/<patient_id>
PatientPrescriptions_get_body(patient_id) == Return(<<summary_123456, summary_789012>>, 200)

(***************************************************************************)
(* Health tips                                                             *)
(***************************************************************************)
tip_hypertension(id) ==
    [id |-> id, title |-> <<"M", "a", "n", "a", "g", "i", "n", "g", " ", "H", "y", "p", "e", "r", "t", "e", "n", "s", "i", "o", "n">>,
     content |-> <<"R", "e", "g", "u", "l", "a", "r", " ", "e", "x", "e", "r", "c", "i", "s", "e", " ", "a", "n", "d", " ", "r", "e", "d", "u", "c", "e", "d", " ", "s", "a", "l", "t", " ", "i", "n", "t", "a", "k", "e", " ", "c", "a", "n", " ", "h", "e", "l", "p", " ", "m", "a", "n", "a", "g", "e", " ", "h", "y", "p", "e", "r", "t", "e", "n", "s", "i", "o", "n", ".", " ", "A", "i", "m", " ", "f", "o", "r", " ", "a", "t", " ", "l", "e", "a", "s", "t", " ", "3", "0", " ", "m", "i", "n", "u", "t", "e", "s", " ", "o", "f", " ", "m", "o", "d", "e", "r", "a", "t", "e", " ", "e", "x", "e", "r", "c", "i", "s", "e", " ", "m", "o", "s", "t", " ", "d", "a", "y", "s", " ", "o", "f", " ", "t", "h", "e", " ", "w", "e", "e", "k", ".">>,
     category |-> <<"c", "a", "r", "d", "i", "o", "v", "a", "s", "c", "u", "l", "a", "r">>, createdDate |-> datetime(2023, 4, 15, 0, 0),
     relevantConditions |-> <<<<"h", "y", "p", "e", "r", "t", "e", "n", "s", "i", "o", "n">>, <<"h", "e", "a", "r", "t", " ", "d", "i", "s", "e", "a", "s", "e">>>>]

\* GET /health-tips/
HealthTipList_get_body ==
    Return(<< tip_hypertension(<<"t", "i", "p", "-", "1", "2", "3", "4", "5", "6">>),
              [id |-> <<"t", "i", "p", "-", "2", "3", "4", "5", "6", "7">>, title |-> <<"D", "i", "a", "b", "e", "t", "i", "c", " ", "D", "i", "e", "t", " ", "T", "i", "p", "s">>,
               content |-> <<"I", "n", "c", "l", "u", "d", "e", " ", "c", "o", "m", "p", "l", "e", "x", " ", "c", "a", "r", "b", "o", "h", "y", "d", "r", "a", "t", "e", "s", " ", "l", "i", "k", "e", " ", "w", "h", "o", "l", "e", " ", "g", "r", "a", "i", "n", "s", ",", " ", "f", "r", "u", "i", "t", "s", ",", " ", "a", "n", "d", " ", "v", "e", "g", "e", "t", "a", "b", "l", "e", "s", " ", "i", "n", " ", "y", "o", "u", "r", " ", "d", "i", "e", "t", ".", " ", "M", "o", "n", "i", "t", "o", "r", " ", "y", "o", "u", "r", " ", "c", "a", "r", "b", "o", "h", "y", "d", "r", "a", "t", "e", " ", "i", "n", "t", "a", "k", "e", " ", "a", "n", "d", " ", "t", "r", "y", " ", "t", "o", " ", "e", "a", "t", " ", "a", "t", " ", "c", "o", "n", "s", "i", "s", "t", "e", "n", "t", " ", "t", "i", "m", "e", "s", " ", "e", "a", "c", "h", " ", "d", "a", "y", ".">>,
               category |-> <<"d", "i", "a", "b", "e", "t", "e", "s">>, createdDate |-> datetime(2023, 4, 12, 0, 0),
               relevantConditions |-> <<<<"d", "i", "a", "b", "e", "t", "e", "s">>, <<"o", "b", "e", "s", "i", "t", "y">>>>],
              [id |-> <<"t", "i", "p", "-", "3", "4", "5", "6", "7", "8">>, title |-> <<"R", "e", "s", "p", "i", "r", "a", "t", "o", "r", "y", " ", "H", "e", "a", "l", "t", "h">>,
               content |-> <<"A", "v", "o", "i", "d", " ", "s", "m", "o", "k", "e", " ", "a", "n", "d", " ", "a", "i", "r", " ", "p", "o", "l", "l", "u", "t", "a", "n", "t", "s", ".", " ", "K", "e", "e", "p", " ", "i", "n", "d", "o", "o", "r", " ", "s", "p", "a", "c", "e", "s", " ", "w", "e", "l", "l", "-", "v", "e", "n", "t", "i", "l", "a", "t", "e", "d", " ", "a", "n", "d", " ", "c", "o", "n", "s", "i", "d", "e", "r", " ", "u", "s", "i", "n", "g", " ", "a", "n", " ", "a", "i", "r", " ", "p", "u", "r", "i", "f", "i", "e", "r", " ", "i", "f", " ", "y", "o", "u", " ", "h", "a", "v", "e", " ", "a", "s", "t", "h", "m", "a", " ", "o", "r", " ", "a", "l", "l", "e", "r", "g", "i", "e", "s", ".">>,
               category |-> <<"r", "e", "s", "p", "i", "r", "a", "t", "o", "r", "y">>, createdDate |-> datetime(2023, 4, 10, 0, 0),
               relevantConditions |-> <<<<"a", "s", "t", "h", "m", "a">>, <<"C", "O", "P", "D">>, <<"a", "l", "l", "e", "r", "g", "i", "e", "s">>>>] >>, 200)

\* GET /health-tips/<id>
HealthTip_get_body(id) == Return(tip_hypertension(id), 200)

\* GET /health-tips/patient/<patient_id>
PatientHealthTips_get_body(patient_id) ==
    Return(<< tip_hypertension(<<"t", "i", "p", "-", "1", "2", "3", "4", "5", "6">>),
              [id |-> <<"t", "i", "p", "-", "2", "3", "4", "5", "6", "7">>, title |-> <<"S", "t", "r", "e", "s", "s", " ", "M", "a", "n", "a", "g", "e", "m", "e", "n", "t">>,
               content |-> <<"P", "r", "a", "c", "t", "i", "c", "i", "n", "g", " ", "m", "i", "n", "d", "f", "u", "l", "n", "e", "s", "s", " ", "m", "e", "d", "i", "t", "a", "t", "i", "o", "n", " ", "f", "o", "r", " ", "1", "0", "-", "1", "5", " ", "m", "i", "n", "u", "t", "e", "s", " ", "d", "a", "i", "l", "y", " ", "c", "a", "n", " ", "h", "e", "l", "p", " ", "r", "e", "d", "u", "c", "e", " ", "s", "t", "r", "e", "s", "s", " ", "a", "n", "d", " ", "l", "o", "w", "e", "r", " ", "b", "l", "o", "o", "d", " ", "p", "r", "e", "s", "s", "u", "r", "e", ".">>,
               category |-> <<"m", "e", "n", "t", "a", "l", " ", "h", "e", "a", "l", "t", "h">>, createdDate |-> datetime(2023, 4, 16, 0, 0),
               relevantConditions |-> <<<<"h", "y", "p", "e", "r", "t", "e", "n", "s", "i", "o", "n">>, <<"a", "n", "x", "i", "e", "t", "y">>>>] >>, 200)

(***************************************************************************)
(* Notifications                                                           *)
(***************************************************************************)
notification(id, patient_id, medicine_id, medicine_name, time, status) ==
    [id |-> id, patientId |-> patient_id, prescriptionId |-> <<"p", "r", "e", "s", "-", "1", "2", "3", "4", "5", "6">>,
     medicineId |-> medicine_id, medicineName |-> medicine_name,
     scheduledTime |-> time, status |-> status, isRead |-> FALSE]

\* GET /notifications/patient/<patient_id>; nows are the values of the three
\* calls of datetime.now(), one per notification
PatientNotifications_get_body(patient_id, nows) ==
    Return(<< notification(<<"n", "o", "t", "i", "f", "-", "1", "2", "3", "4", "5", "6">>, patient_id, <<"m", "e", "d", "-", "1">>,
                           <<"L", "i", "s", "i", "n", "o", "p", "r", "i", "l", " ", "1", "0", "m", "g">>, AtHour(nows[1], 8), <<"t", "a", "k", "e", "n">>),
              notification(<<"n", "o", "t", "i", "f", "-", "2", "3", "4", "5", "6", "7">>, patient_id, <<"m", "e", "d", "-", "2">>,
                           <<"H", "y", "d", "r", "o", "c", "h", "l", "o", "r", "o", "t", "h", "i", "a", "z", "i", "d", "e", " ", "1", "2", ".", "5", "m", "g">>, AtHour(nows[2], 8), <<"p", "e", "n", "d", "i", "n", "g">>),
              notification(<<"n", "o", "t", "i", "f", "-", "3", "4", "5", "6", "7", "8">>, patient_id, <<"m", "e", "d", "-", "1">>,
                           <<"L", "i", "s", "i", "n", "o", "p", "r", "i", "l", " ", "1", "0", "m", "g">>, AtHour(nows[3], 20), <<"p", "e", "n", "d", "i", "n", "g">>) >>, 200)

\* PUT /notifications/<id>/update
UpdateNotification_put_body(id, data, now) ==
    IF "status" \notin DOMAIN data \/ "isRead" \notin DOMAIN data THEN Raise("KeyError")
    ELSE Return([id |-> id, patientId |-> <<"p", "a", "t", "-", "1", "2", "3", "4", "5", "6">>,
                 prescriptionId |-> <<"p", "r", "e", "s", "-", "1", "2", "3", "4", "5", "6">>, medicineId |-> <<"m", "e", "d", "-", "1">>,
                 medicineName |-> <<"L", "i", "s", "i", "n", "o", "p", "r", "i", "l", " ", "1", "0", "m", "g">>,
                 scheduledTime |-> AtHour(now, 8),
                 status |-> data.status, isRead |-> data.isRead], 200)

\* GET /notifications/schedule/patient/<patient_id>
PatientMedicationSchedule_get_body(patient_id) ==
    Return([patient |-> [id |-> patient_id, name |-> <<"J", "o", "h", "n", " ", "S", "m", "i", "t", "h">>],
            dailySchedule |->
              << [time |-> <<"0", "8", ":", "0", "0">>,
                  medicines |->
                    << [medicineId |-> <<"m", "e", "d", "-", "1">>, name |-> <<"L", "i", "s", "i", "n", "o", "p", "r", "i", "l", " ", "1", "0", "m", "g">>,
                        instructions |-> <<"T", "a", "k", "e", " ", "w", "i", "t", "h", " ", "w", "a", "t", "e", "r">>],
                       [medicineId |-> <<"m", "e", "d", "-", "2">>, name |-> <<"H", "y", "d", "r", "o", "c", "h", "l", "o", "r", "o", "t", "h", "i", "a", "z", "i", "d", "e", " ", "1", "2", ".", "5", "m", "g">>,
                        instructions |-> <<"T", "a", "k", "e", " ", "w", "i", "t", "h", " ", "f", "o", "o", "d">>] >>],
                 [time |-> <<"1", "3", ":", "0", "0">>,
                  medicines |->
                    << [medicineId |-> <<"m", "e", "d", "-", "3">>, name |-> <<"M", "e", "t", "f", "o", "r", "m", "i", "n", " ", "5", "0", "0", "m", "g">>,
                        instructions |-> <<"T", "a", "k", "e", " ", "w", "i", "t", "h", " ", "l", "u", "n", "c", "h">>] >>],
                 [time |-> <<"2", "0", ":", "0", "0">>,
                  medicines |->
                    << [medicineId |-> <<"m", "e", "d", "-", "1">>, name |-> <<"L", "i", "s", "i", "n", "o", "p", "r", "i", "l", " ", "1", "0", "m", "g">>,
                        instructions |-> <<"T", "a", "k", "e", " ", "w", "i", "t", "h", " ", "w", "a", "t", "e", "r">>] >>] >>], 200)

(***************************************************************************)
(* Follow-ups                                                              *)
(***************************************************************************)
\* GET /followups/
FollowUpList_get_body ==
    Return(<< [id |-> <<"f", "o", "l", "l", "o", "w", "-", "1", "2", "3", "4", "5", "6">>, prescriptionId |-> <<"p", "r", "e", "s", "-", "1", "2", "3", "4", "5", "6">>,
               doctorId |-> <<"d", "o", "c", "-", "1", "2", "3", "4", "5", "6", "7", "8">>, patientId |-> <<"p", "a", "t", "-", "1", "2", "3", "4", "5", "6", "7", "8">>,
               scheduledDate |-> datetime(2023, 5, 18, 10, 30), status |-> <<"s", "c", "h", "e", "d", "u", "l", "e", "d">>,
               notes |-> <<"R", "e", "v", "i", "e", "w", " ", "b", "l", "o", "o", "d", " ", "p", "r", "e", "s", "s", "u", "r", "e", " ", "r", "e", "a", "d", "i", "n", "g", "s">>],
              [id |-> <<"f", "o", "l", "l", "o", "w", "-", "2", "3", "4", "5", "6", "7">>, prescriptionId |-> <<"p", "r", "e", "s", "-", "7", "8", "9", "0", "1", "2">>,
               doctorId |-> <<"d", "o", "c", "-", "8", "7", "6", "5", "4", "3", "2", "1">>, patientId |-> <<"p", "a", "t", "-", "1", "2", "3", "4", "5", "6", "7", "8">>,
               scheduledDate |-> datetime(2023, 4, 10, 9, 0), status |-> <<"c", "o", "m", "p", "l", "e", "t", "e", "d">>,
               notes |-> <<"F", "o", "l", "l", "o", "w", "-", "u", "p", " ", "f", "o", "r", " ", "u", "p", "p", "e", "r", " ", "r", "e", "s", "p", "i", "r", "a", "t", "o", "r", "y", " ", "i", "n", "f", "e", "c", "t", "i", "o", "n", ".", " ", "P", "a", "t", "i", "e", "n", "t", " ", "h", "a", "s", " ", "r", "e", "c", "o", "v", "e", "r", "e", "d", ".">>] >>,
           200)

\* GET /followups/doctor/<doctor_id>
DoctorFollowUps_get_body(doctor_id) ==
    Return(<< [id |-> <<"f", "o", "l", "l", "o", "w", "-", "1", "2", "3", "4", "5", "6">>, prescriptionId |-> <<"p", "r", "e", "s", "-", "1", "2", "3", "4", "5", "6">>,
               doctorId |-> doctor_id, patientId |-> <<"p", "a", "t", "-", "1", "2", "3", "4", "5", "6", "7", "8">>,
               scheduledDate |-> datetime(2023, 5, 18, 10, 30), status |-> <<"s", "c", "h", "e", "d", "u", "l", "e", "d">>,
               notes |-> <<"R", "e", "v", "i", "e", "w", " ", "b", "l", "o", "o", "d", " ", "p", "r", "e", "s", "s", "u", "r", "e", " ", "r", "e", "a", "d", "i", "n", "g", "s">>],
              [id |-> <<"f", "o", "l", "l", "o", "w", "-", "2", "3", "4", "5", "6", "7">>, prescriptionId |-> <<"p", "r", "e", "s", "-", "4", "5", "6", "7", "8", "9">>,
               doctorId |-> doctor_id, patientId |-> <<"p", "a", "t", "-", "8", "7", "6", "5", "4", "3", "2", "1">>,
               scheduledDate |-> datetime(2023, 5, 20, 14, 0), status |-> <<"s", "c", "h", "e", "d", "u", "l", "e", "d">>,
               notes |-> <<"F", "o", "l", "l", "o", "w", "-", "u", "p", " ", "f", "o", "r", " ", "c", "a", "r", "d", "i", "a", "c", " ", "a", "r", "r", "h", "y", "t", "h", "m", "i", "a">>] >>, 200)

\* GET /followups/doctor/<doctor_id>/due; nows are the values of the three
\* calls of datetime.now(): the first one is for next_week, which is not used
DoctorDueFollowUps_get_body(doctor_id, nows) ==
    Return(<< [id |-> <<"f", "o", "l", "l", "o", "w", "-", "1", "2", "3", "4", "5", "6">>, prescriptionId |-> <<"p", "r", "e", "s", "-", "1", "2", "3", "4", "5", "6">>,
               doctorId |-> doctor_id, patientId |-> <<"p", "a", "t", "-", "1", "2", "3", "4", "5", "6", "7", "8">>,
               patientName |-> <<"J", "o", "h", "n", " ", "S", "m", "i", "t", "h">>,
               scheduledDate |-> PlusDays(nows[2], 2), status |-> <<"s", "c", "h", "e", "d", "u", "l", "e", "d">>,
               notes |-> <<"R", "e", "v", "i", "e", "w", " ", "b", "l", "o", "o", "d", " ", "p", "r", "e", "s", "s", "u", "r", "e", " ", "r", "e", "a", "d", "i", "n", "g", "s">>],
              [id |-> <<"f", "o", "l", "l", "o", "w", "-", "2", "3", "4", "5", "6", "7">>, prescriptionId |-> <<"p", "r", "e", "s", "-", "4", "5", "6", "7", "8", "9">>,
               doctorId |-> doctor_id, patientId |-> <<"p", "a", "t", "-", "8", "7", "6", "5", "4", "3", "2", "1">>,
               patientName |-> <<"E", "m", "m", "a", " ", "W", "i", "l", "s", "o", "n">>,
               scheduledDate |-> PlusDays(nows[3], 5), status |-> <<"s", "c", "h", "e", "d", "u", "l", "e", "d">>,
               notes |-> <<"F", "o", "l", "l", "o", "w", "-", "u", "p", " ", "f", "o", "r", " ", "c", "a", "r", "d", "i", "a", "c", " ", "a", "r", "r", "h", "y", "t", "h", "m", "i", "a">>] >>, 200)

\* GET /followups/patient/<patient_id>
PatientFollowUps_get_body(patient_id) ==
    Return(<< [id |-> <<"f", "o", "l", "l", "o", "w", "-", "1", "2", "3", "4", "5", "6">>, prescriptionId |-> <<"p", "r", "e", "s", "-", "1", "2", "3", "4", "5", "6">>,
               doctorId |-> <<"d", "o", "c", "-", "1", "2", "3", "4", "5", "6", "7", "8">>, doctorName |-> <<"D", "r", ".", " ", "S", "a", "r", "a", "h", " ", "W", "i", "l", "l", "i", "a", "m", "s">>,
               patientId |-> patient_id,
               scheduledDate |-> datetime(2023, 5, 18, 10, 30), status |-> <<"s", "c", "h", "e", "d", "u", "l", "e", "d">>,
               notes |-> <<"R", "e", "v", "i", "e", "w", " ", "b", "l", "o", "o", "d", " ", "p", "r", "e", "s", "s", "u", "r", "e", " ", "r", "e", "a", "d", "i", "n", "g", "s">>],
              [id |-> <<"f", "o", "l", "l", "o", "w", "-", "2", "3", "4", "5", "6", "7">>, prescriptionId |-> <<"p", "r", "e", "s", "-", "7", "8", "9", "0", "1", "2">>,
               doctorId |-> <<"d", "o", "c", "-", "8", "7", "6", "5", "4", "3", "2", "1">>, doctorName |-> <<"D", "r", ".", " ", "M", "i", "c", "h", "a", "e", "l", " ", "C", "h", "e", "n">>,
               patientId |-> patient_id,
               scheduledDate |-> datetime(2023, 4, 10, 9, 0), status |-> <<"c", "o", "m", "p", "l", "e", "t", "e", "d">>,
               notes |-> <<"F", "o", "l", "l", "o", "w", "-", "u", "p", " ", "f", "o", "r", " ", "u", "p", "p", "e", "r", " ", "r", "e", "s", "p", "i", "r", "a", "t", "o", "r", "y", " ", "i", "n", "f", "e", "c", "t", "i", "o", "n">>] >>, 200)

\* PUT /followups/<id>/update
UpdateFollowUp_put_body(id, data) ==
    IF "status" \notin DOMAIN data THEN Raise("KeyError")
    ELSE Return([id |-> id, prescriptionId |-> <<"p", "r", "e", "s", "-", "1", "2", "3", "4", "5", "6">>,
                 doctorId |-> <<"d", "o", "c", "-", "1", "2", "3", "4", "5", "6", "7", "8">>, patientId |-> <<"p", "a", "t", "-", "1", "2", "3", "4", "5", "6", "7", "8">>,
                 scheduledDate |-> Get(data, "scheduledDate", datetime(2023, 5, 18, 10, 30)),
                 status |-> data.status,
                 notes |-> Get(data, "notes", <<"R", "e", "v", "i", "e", "w", " ", "b", "l", "o", "o", "d", " ", "p", "r", "e", "s", "s", "u", "r", "e", " ", "r", "e", "a", "d", "i", "n", "g", "s">>)], 200)

(***************************************************************************)
(* Request inputs                                                          *)
(***************************************************************************)
Alphabet == {"s", "S", "i", "1", "z", LongS}

BoundedStrings(n) == UNION {[1..k -> Alphabet] : k \in 0..n}

SampleQueries ==
    {<<"l", "i", "s", "i", "n">>, <<"L", "I", "S", "I", "N">>, <<"L", "i", "s", "i", "n">>, <<"s", "t", "a", "t", "i", "n">>, <<"M", "G">>, <<"1", "0", "m", "g">>}

\* request.args: no query parameter, or query=<string>
QueryArgs(n) == {<<>>} \cup {[query |-> q] : q \in BoundedStrings(n) \cup SampleQueries}

Range(seq) == {seq[k] : k \in 1..Len(seq)}

Labels ==
    LET published == Range(groups) \cup Range(companies)
    IN  published \cup {lower(l) : l \in published} \cup {upper(l) : l \in published}
          \cup {<<"n", "o", "n", "e", "x", "i", "s", "t", "e", "n", "t">>}

PathIds == {<<"d", "o", "c", "-", "1", "2", "3", "4", "5", "6", "7", "8">>, <<"p", "a", "t", "-", "8", "7", "6", "5", "4", "3", "2", "1">>, <<"x">>}

Emails == {<<"d", "o", "c", "t", "o", "r", "@", "x", ".", "i", "o">>, <<"D", "o", "c", "t", "o", "r", "@", "x", ".", "i", "o">>, <<"p", "a", "t", "@", "x", ".", "i", "o">>}

Passwords == {<<"p", "w", "1">>, <<"p", "w", "2">>}

LoginBodies == {[email |-> e, password |-> p] : e \in Emails, p \in Passwords}

DoctorRegisterBodies ==
    {[name |-> <<"A", "n", "n", " ", "L", "e", "e">>, email |-> e, password |-> p, role |-> <<"d", "o", "c", "t", "o", "r">>,
      specialization |-> <<"C", "a", "r", "d", "i", "o", "l", "o", "g", "i", "s", "t">>, phoneNumber |-> <<"1", "2", "3", "-", "4", "5", "6", "-", "7", "8", "9", "0">>] :
        e \in Emails, p \in Passwords}

PatientRegisterBodies ==
    {[name |-> <<"B", "o", "b", " ", "R", "a", "y">>, email |-> e, password |-> p, role |-> <<"p", "a", "t", "i", "e", "n", "t">>,
      age |-> 35, gender |-> <<"m", "a", "l", "e">>] : e \in Emails, p \in Passwords}

PrescribedMedicine ==
    [id |-> <<"m", "e", "d", "-", "1", "0">>, name |-> <<"L", "i", "s", "i", "n", "o", "p", "r", "i", "l", " ", "1", "0", "m", "g">>, dosage |-> <<"1">>,
     timing |-> <<"b", "e", "f", "o", "r", "e", "_", "m", "e", "a", "l">>, instructions |-> <<"T", "a", "k", "e", " ", "w", "i", "t", "h", " ", "w", "a", "t", "e", "r">>]

PrescriptionCreateBodies ==
    UNION {{[patientId |-> p, diseaseDescription |-> <<"H", "y", "p", "e", "r", "t", "e", "n", "s", "i", "o", "n">>,
             medicines |-> <<PrescribedMedicine>>],
            [patientId |-> p, diseaseDescription |-> <<"H", "y", "p", "e", "r", "t", "e", "n", "s", "i", "o", "n">>,
             medicines |-> <<PrescribedMedicine>>,
             followUpDate |-> <<"2", "0", "2", "3", "-", "0", "5", "-", "1", "8", "T", "1", "0", ":", "3", "0", ":", "0", "0">>,
             advice |-> <<"R", "e", "d", "u", "c", "e", " ", "s", "a", "l", "t", " ", "i", "n", "t", "a", "k", "e", ".">>]} : p \in PathIds}

HealthTipBodies ==
    {[title |-> <<"M", "a", "n", "a", "g", "i", "n", "g", " ", "H", "y", "p", "e", "r", "t", "e", "n", "s", "i", "o", "n">>, content |-> <<"E", "x", "e", "r", "c", "i", "s", "e", ".">>,
      category |-> <<"c", "a", "r", "d", "i", "o", "v", "a", "s", "c", "u", "l", "a", "r">>],
     [title |-> <<"M", "a", "n", "a", "g", "i", "n", "g", " ", "H", "y", "p", "e", "r", "t", "e", "n", "s", "i", "o", "n">>, content |-> <<"E", "x", "e", "r", "c", "i", "s", "e", ".">>,
      category |-> <<"c", "a", "r", "d", "i", "o", "v", "a", "s", "c", "u", "l", "a", "r">>,
      relevantConditions |-> <<<<"h", "y", "p", "e", "r", "t", "e", "n", "s", "i", "o", "n">>>>]}

DoctorUpdateBodies ==
    {<<>>,
     [name |-> <<"D", "r", ".", " ", "A", "n", "n", " ", "L", "e", "e">>],
     [specialization |-> <<"N", "e", "u", "r", "o", "l", "o", "g", "i", "s", "t">>, phoneNumber |-> <<"5", "5", "5", "-", "0", "1", "0", "0">>]}

PatientUpdateBodies == {<<>>, [name |-> <<"B", "o", "b", " ", "R", "a", "y">>, age |-> 46]}

\* JSON bodies of PUT /prescriptions/<id>: date and followUpDate in several
\* ISO 8601 formats, not ISO-formatted, with a character outside ASCII before
\* the UTC mark or between date and time, with U+0000 after the UTC mark or the
\* UTC offset, null, empty, a number, a boolean or absent
PrescriptionUpdateBodies ==
    {[date |-> <<"2", "0", "2", "3", "-", "0", "4", "-", "1", "8", "T", "1", "0", ":", "3", "0", ":", "0", "0">>],
     [date |-> <<"2", "0", "2", "3", "-", "0", "4", "-", "1", "8", "T", "1", "0", ":", "3", "0", ":", "0", "0">>, followUpDate |-> <<"2", "0", "2", "3", "-", "0", "5", "-", "1", "8", "T", "1", "0", ":", "3", "0", ":", "0", "0">>,
      patientId |-> <<"p", "a", "t", "-", "8", "7", "6", "5", "4", "3", "2", "1">>, status |-> <<"c", "o", "m", "p", "l", "e", "t", "e", "d">>],
     [date |-> <<"t", "o", "m", "o", "r", "r", "o", "w">>, followUpDate |-> <<"s", "o", "o", "n">>],
     [date |-> None, followUpDate |-> None],
     [date |-> <<"2", "0", "2", "3", "-", "0", "4", "-", "1", "8", "T", "1", "0", ":", "3", "0", ":", "0", "0">>, followUpDate |-> <<>>],
     [followUpDate |-> <<"2", "0", "2", "3", "-", "0", "5", "-", "1", "8", "T", "1", "0", ":", "3", "0", ":", "0", "0">>],
     [date |-> <<"2", "0", "2", "3", "-", "0", "4", "-", "1", "8">>, followUpDate |-> 0, status |-> <<"a", "c", "t", "i", "v", "e">>],
     [date |-> <<"2", "0", "2", "3", "0", "4", "1", "8", "T", "1", "0", "3", "0">>, followUpDate |-> TRUE, patientId |-> <<"p", "a", "t", "-", "8", "7", "6", "5", "4", "3", "2", "1">>,
      diseaseDescription |-> <<"H", "y", "p", "e", "r", "t", "e", "n", "s", "i", "o", "n">>, status |-> <<"c", "o", "m", "p", "l", "e", "t", "e", "d">>, advice |-> <<>>],
     [date |-> <<"2", "0", "2", "3", "-", "W", "1", "6", "-", "2", " ", "1", "0", ":", "3", "0", ":", "0", "0", ".", "5", "+", "0", "5", ":", "3", "0">>, followUpDate |-> <<"2", "0", "2", "3", "-", "0", "2", "-", "2", "9">>],
     [date |-> <<"2", "0", "2", "3", "-", "0", "4", "-", "1", "8", "T", "1", "0", ":", "3", "0">> \o <<LongS, "Z">>,
      followUpDate |-> <<"2", "0", "2", "3", "-", "0", "5", "-", "1", "8">> \o <<LongS>> \o <<"1", "0", ":", "3", "0">>],
     [date |-> <<"2", "0", "2", "3", "-", "0", "4", "-", "1", "8", "T", "1", "0", ":", "3", "0", "Z">> \o <<NUL>> \o <<"j", "u", "n", "k">>,
      followUpDate |-> <<"2", "0", "2", "3", "-", "0", "5", "-", "1", "8", "T", "1", "0", ":", "3", "0", "+", "0", "5">> \o <<NUL>>],
     <<>>}

NotificationUpdateBodies ==
    {[status |-> <<"t", "a", "k", "e", "n">>, isRead |-> TRUE],
     [status |-> <<"m", "i", "s", "s", "e", "d">>, isRead |-> FALSE],
     [status |-> <<"s", "n", "o", "o", "z", "e", "d">>, isRead |-> TRUE],
     [status |-> <<"t", "a", "k", "e", "n">>],
     [isRead |-> TRUE]}

FollowUpUpdateBodies ==
    {[status |-> <<"c", "o", "m", "p", "l", "e", "t", "e", "d">>],
     [status |-> <<"r", "e", "s", "c", "h", "e", "d", "u", "l", "e", "d">>, scheduledDate |-> <<"2", "0", "2", "3", "-", "0", "5", "-", "2", "5", "T", "0", "9", ":", "0", "0", ":", "0", "0">>,
      notes |-> <<"M", "o", "v", "e", "d", " ", "b", "y", " ", "a", " ", "w", "e", "e", "k">>],
     [status |-> <<"c", "a", "n", "c", "e", "l", "l", "e", "d">>],
     [status |-> <<"c", "a", "n", "c", "e", "l", "l", "e", "d">>, scheduledDate |-> <<"2", "0", "2", "3", "-", "0", "6", "-", "0", "1", "T", "0", "9", ":", "0", "0", ":", "0", "0">>],
     [notes |-> <<"M", "o", "v", "e", "d", " ", "b", "y", " ", "a", " ", "w", "e", "e", "k">>]}

\* the JSON bodies sent to each endpoint that reads request.json
Bodies ==
    ("Login.post" :> LoginBodies)
      @@ ("DoctorRegister.post" :> DoctorRegisterBodies)
      @@ ("PatientRegister.post" :> PatientRegisterBodies)
      @@ ("Doctor.put" :> DoctorUpdateBodies)
      @@ ("Patient.put" :> PatientUpdateBodies)
      @@ ("PrescriptionList.post" :> PrescriptionCreateBodies)
      @@ ("Prescription.put" :> PrescriptionUpdateBodies)
      @@ ("HealthTipList.post" :> HealthTipBodies)
      @@ ("UpdateNotification.put" :> NotificationUpdateBodies)
      @@ ("UpdateFollowUp.put" :> FollowUpUpdateBodies)

FewBodies ==
    ("Login.post" :> {b \in LoginBodies : b.password = <<"p", "w", "1">>})
      @@ ("DoctorRegister.post" :>
            {b \in DoctorRegisterBodies :
                b.password = <<"p", "w", "1">> /\ b.email = <<"d", "o", "c", "t", "o", "r", "@", "x", ".", "i", "o">>})
      @@ ("PatientRegister.post" :>
            {b \in PatientRegisterBodies :
                b.password = <<"p", "w", "1">> /\ b.email = <<"p", "a", "t", "@", "x", ".", "i", "o">>})
      @@ ("Doctor.put" :> {<<>>, [name |-> <<"D", "r", ".", " ", "A", "n", "n", " ", "L", "e", "e">>]})
      @@ ("Patient.put" :> PatientUpdateBodies)
      @@ ("PrescriptionList.post" :>
            {b \in PrescriptionCreateBodies : b.patientId = <<"p", "a", "t", "-", "8", "7", "6", "5", "4", "3", "2", "1">>})
      @@ ("Prescription.put" :>
            {[date |-> <<"2", "0", "2", "3", "-", "0", "4", "-", "1", "8", "T", "1", "0", ":", "3", "0", ":", "0", "0">>],
             [date |-> <<"t", "o", "m", "o", "r", "r", "o", "w">>, followUpDate |-> <<"s", "o", "o", "n">>],
             <<>>})
      @@ ("HealthTipList.post" :> HealthTipBodies)
      @@ ("UpdateNotification.put" :>
            {[status |-> <<"t", "a", "k", "e", "n">>, isRead |-> TRUE], [status |-> <<"t", "a", "k", "e", "n">>]})
      @@ ("UpdateFollowUp.put" :>
            {[status |-> <<"c", "o", "m", "p", "l", "e", "t", "e", "d">>], [notes |-> <<"M", "o", "v", "e", "d", " ", "b", "y", " ", "a", " ", "w", "e", "e", "k">>]})

\* all inputs of the model
Full ==
    [apps |-> Apps, tokens |-> Tokens, ids |-> PathIds, labels |-> Labels,
     queries |-> QueryArgs(MaxQueryLen), uuids |-> uuid4, clock |-> Clock,
     data |-> Bodies]

\* a sample of the inputs, for the specifications that keep earlier requests
Few ==
    [apps |-> Apps, tokens |-> {MissingToken, ValidToken},
     ids |-> {<<"d", "o", "c", "-", "1", "2", "3", "4", "5", "6", "7", "8">>, <<"x">>},
     labels |-> {<<"A", "C", "E", " ", "I", "n", "h", "i", "b", "i", "t", "o", "r">>, <<"P", "f", "i", "z", "e", "r">>, <<"n", "o", "n", "e", "x", "i", "s", "t", "e", "n", "t">>},
     queries |-> {<<>>, [query |-> <<"l", "i", "s", "i", "n">>], [query |-> <<"L", "I", "S", "I", "N">>]},
     uuids |-> {UuidStr("0", "d"), UuidStr("0", "f"), UuidStr("d", "0")},
     clock |-> Clock, data |-> FewBodies]

(***************************************************************************)
(* Routing: the decorator and the body of every endpoint                   *)
(***************************************************************************)
Request(app, endpoint, token, path, args, data) ==
    [app |-> app, endpoint |-> endpoint, token |-> token, path |-> path,
     args |-> args, data |-> data]

\* the values one request draws from uuid.uuid4() and the values of its calls
\* of datetime.now(), in order
Draw(u1, u2, now) == [u1 |-> u1, u2 |-> u2, now |-> now]

NoDraw == Draw(<<>>, <<>>, <<>>)

jwt_required_endpoints ==
    {"Doctor.put", "Doctor.delete", "DoctorPatients.get", "Patient.put",
     "Patient.delete"}

jwt_optional_endpoints ==
    {"DoctorList.get", "Doctor.get", "PatientList.get", "Patient.get",
     "PrescriptionList.get", "PrescriptionList.post", "Prescription.get",
     "Prescription.put", "DoctorPrescriptions.get",
     "PatientPrescriptions.get", "MedicineList.get", "MedicineSearch.get",
     "HealthTipList.get", "HealthTipList.post", "HealthTip.get",
     "PatientHealthTips.get", "PatientNotifications.get",
     "UpdateNotification.put", "PatientMedicationSchedule.get",
     "FollowUpList.get", "DoctorFollowUps.get", "DoctorDueFollowUps.get",
     "PatientFollowUps.get", "UpdateFollowUp.put", "MedicineGroups.get",
     "MedicineCompanies.get", "MedicinesByGroup.get",
     "MedicinesByCompany.get"}

\* the handler body of the request's endpoint; jwt is the token verified for
\* this request, if any
Body(req, jwt, d) ==
    CASE req.endpoint = "Login.post" -> Login_post_body(req.data, d.u1)
      [] req.endpoint = "DoctorRegister.post" -> DoctorRegister_post_body(req.data, d.u1)
      [] req.endpoint = "PatientRegister.post" -> PatientRegister_post_body(req.data, d.u1)
      [] req.endpoint = "DoctorList.get" -> DoctorList_get_body
      [] req.endpoint = "Doctor.get" -> Doctor_get_body(req.path)
      [] req.endpoint = "Doctor.put" -> Doctor_put_body(req.path, req.data)
      [] req.endpoint = "Doctor.delete" -> Doctor_delete_body(req.path)
      [] req.endpoint = "DoctorPatients.get" -> DoctorPatients_get_body(req.path, d.u1, d.u2)
      [] req.endpoint = "PatientList.get" -> PatientList_get_body
      [] req.endpoint = "Patient.get" -> Patient_get_body(req.path)
      [] req.endpoint = "Patient.put" -> Patient_put_body(req.path, req.data)
      [] req.endpoint = "Patient.delete" -> Patient_delete_body(req.path)
      [] req.endpoint = "PrescriptionList.get" -> PrescriptionList_get_body
      [] req.endpoint = "PrescriptionList.post" -> PrescriptionList_post_body(jwt, req.data, d.u1, d.now[1])
      [] req.endpoint = "Prescription.get" -> Prescription_get_body(req.path)
      [] req.endpoint = "Prescription.put" -> Prescription_put_body(jwt, req.path, req.data, d.now)
      [] req.endpoint = "DoctorPrescriptions.get" -> DoctorPrescriptions_get_body(req.path)
      [] req.endpoint = "PatientPrescriptions.get" -> PatientPrescriptions_get_body(req.path)
      [] req.endpoint = "MedicineList.get" -> MedicineList_get_body(req.app)
      [] req.endpoint = "MedicineSearch.get" -> MedicineSearch_get_body(req.args)
      [] req.endpoint = "HealthTipList.get" -> HealthTipList_get_body
      [] req.endpoint = "HealthTipList.post" -> HealthTipList_post_body(req.data, d.u1, d.now[1])
      [] req.endpoint = "HealthTip.get" -> HealthTip_get_body(req.path)
      [] req.endpoint = "PatientHealthTips.get" -> PatientHealthTips_get_body(req.path)
      [] req.endpoint = "PatientNotifications.get" -> PatientNotifications_get_body(req.path, d.now)
      [] req.endpoint = "UpdateNotification.put" -> UpdateNotification_put_body(req.path, req.data, d.now[1])
      [] req.endpoint = "PatientMedicationSchedule.get" -> PatientMedicationSchedule_get_body(req.path)
      [] req.endpoint = "FollowUpList.get" -> FollowUpList_get_body
      [] req.endpoint = "DoctorFollowUps.get" -> DoctorFollowUps_get_body(req.path)
      [] req.endpoint = "DoctorDueFollowUps.get" -> DoctorDueFollowUps_get_body(req.path, d.now)
      [] req.endpoint = "PatientFollowUps.get" -> PatientFollowUps_get_body(req.path)
      [] req.endpoint = "UpdateFollowUp.put" -> UpdateFollowUp_put_body(req.path, req.data)
      [] req.endpoint = "MedicineGroups.get" -> MedicineGroups_get_body
      [] req.endpoint = "MedicineCompanies.get" -> MedicineCompanies_get_body
      [] req.endpoint = "MedicinesByGroup.get" -> MedicinesByGroup_get_body(req.path)
      [] req.endpoint = "MedicinesByCompany.get" -> MedicinesByCompany_get_body(req.path)

\* the token get_jwt_identity() finds in the request context
Verified(token) == IF token.kind = "valid" THEN token ELSE MissingToken

\* the decorated handler of the request's endpoint
Serve(req, d) ==
    LET Decorated(fn_outcome) ==
            IF req.endpoint \in jwt_required_endpoints
            THEN jwt_required(req.token, fn_outcome)
            ELSE IF req.endpoint \in jwt_optional_endpoints
            THEN jwt_optional(req.token, fn_outcome)
            ELSE Ran(fn_outcome, 1)
    IN  Decorated(Body(req, Verified(req.token), d))

\* the number of calls of datetime.now() one run of the body makes
ClockReads(req) ==
    IF req.endpoint \in {"PrescriptionList.post", "HealthTipList.post", "UpdateNotification.put"}
    THEN 1
    ELSE IF req.endpoint \in {"PatientNotifications.get", "DoctorDueFollowUps.get"}
    THEN 3
    ELSE IF req.endpoint = "Prescription.put" THEN Prescription_put_reads(req.data)
    ELSE 0

\* what the request draws of d when its body runs ran times and each run
\* reads the clock reads times: the identifiers of its body and the clock
\* values of every run of the body
Uses(req, d, ran, reads) ==
    IF ran = 0 THEN NoDraw
    ELSE [u1 |-> IF req.endpoint \in {"Login.post", "DoctorRegister.post", "PatientRegister.post", "PrescriptionList.post", "HealthTipList.post", "DoctorPatients.get"}
                THEN d.u1 ELSE <<>>,
          u2 |-> IF req.endpoint \in {"DoctorPatients.get"} THEN d.u2 ELSE <<>>,
          now |-> SubSeq(d.now, 1, IF reads * ran < Len(d.now) THEN reads * ran
                                   ELSE Len(d.now))]

\* the requests of a sample S of inputs
Requests(S) ==
    {Request(app, "Login.post", MissingToken, <<>>, <<>>, data) :
           app \in S.apps, data \in S.data["Login.post"]}
      \cup {Request(app, "DoctorRegister.post", MissingToken, <<>>, <<>>, data) :
           app \in S.apps, data \in S.data["DoctorRegister.post"]}
      \cup {Request(app, "PatientRegister.post", MissingToken, <<>>, <<>>, data) :
           app \in S.apps, data \in S.data["PatientRegister.post"]}
      \cup {Request(app, "DoctorList.get", token, <<>>, <<>>, <<>>) :
           app \in S.apps, token \in S.tokens}
      \cup {Request(app, "Doctor.get", token, path, <<>>, <<>>) :
           app \in S.apps, token \in S.tokens, path \in S.ids}
      \cup {Request("medscribe_api", "Doctor.put", token, path, <<>>, data) :
           token \in S.tokens, path \in S.ids, data \in S.data["Doctor.put"]}
      \cup {Request("medscribe_api", "Doctor.delete", token, path, <<>>, <<>>) :
           token \in S.tokens, path \in S.ids}
      \cup {Request(app, "DoctorPatients.get", token, path, <<>>, <<>>) :
           app \in S.apps, token \in S.tokens, path \in S.ids}
      \cup {Request(app, "PatientList.get", token, <<>>, <<>>, <<>>) :
           app \in S.apps, token \in S.tokens}
      \cup {Request(app, "Patient.get", token, path, <<>>, <<>>) :
           app \in S.apps, token \in S.tokens, path \in S.ids}
      \cup {Request("medscribe_api", "Patient.put", token, path, <<>>, data) :
           token \in S.tokens, path \in S.ids, data \in S.data["Patient.put"]}
      \cup {Request("medscribe_api", "Patient.delete", token, path, <<>>, <<>>) :
           token \in S.tokens, path \in S.ids}
      \cup {Request(app, "PrescriptionList.get", token, <<>>, <<>>, <<>>) :
           app \in S.apps, token \in S.tokens}
      \cup {Request(app, "PrescriptionList.post", token, <<>>, <<>>, data) :
           app \in S.apps, token \in S.tokens, data \in S.data["PrescriptionList.post"]}
      \cup {Request(app, "Prescription.get", token, path, <<>>, <<>>) :
           app \in S.apps, token \in S.tokens, path \in S.ids}
      \cup {Request(app, "Prescription.put", token, path, <<>>, data) :
           app \in S.apps, token \in S.tokens, path \in S.ids, data \in S.data["Prescription.put"]}
      \cup {Request(app, "DoctorPrescriptions.get", token, path, <<>>, <<>>) :
           app \in S.apps, token \in S.tokens, path \in S.ids}
      \cup {Request(app, "PatientPrescriptions.get", token, path, <<>>, <<>>) :
           app \in S.apps, token \in S.tokens, path \in S.ids}
      \cup {Request(app, "MedicineList.get", token, <<>>, <<>>, <<>>) :
           app \in S.apps, token \in S.tokens}
      \cup {Request(app, "MedicineSearch.get", token, <<>>, args, <<>>) :
           app \in S.apps, token \in S.tokens, args \in S.queries}
      \cup {Request("medscribe_api", "HealthTipList.get", token, <<>>, <<>>, <<>>) :
           token \in S.tokens}
      \cup {Request("medscribe_api", "HealthTipList.post", token, <<>>, <<>>, data) :
           token \in S.tokens, data \in S.data["HealthTipList.post"]}
      \cup {Request("medscribe_api", "HealthTip.get", token, path, <<>>, <<>>) :
           token \in S.tokens, path \in S.ids}
      \cup {Request("medscribe_api", "PatientHealthTips.get", token, path, <<>>, <<>>) :
           token \in S.tokens, path \in S.ids}
      \cup {Request("medscribe_api", "PatientNotifications.get", token, path, <<>>, <<>>) :
           token \in S.tokens, path \in S.ids}
      \cup {Request("medscribe_api", "UpdateNotification.put", token, path, <<>>, data) :
           token \in S.tokens, path \in S.ids, data \in S.data["UpdateNotification.put"]}
      \cup {Request("medscribe_api", "PatientMedicationSchedule.get", token, path, <<>>, <<>>) :
           token \in S.tokens, path \in S.ids}
      \cup {Request("medscribe_api", "FollowUpList.get", token, <<>>, <<>>, <<>>) :
           token \in S.tokens}
      \cup {Request("medscribe_api", "DoctorFollowUps.get", token, path, <<>>, <<>>) :
           token \in S.tokens, path \in S.ids}
      \cup {Request("medscribe_api", "DoctorDueFollowUps.get", token, path, <<>>, <<>>) :
           token \in S.tokens, path \in S.ids}
      \cup {Request("medscribe_api", "PatientFollowUps.get", token, path, <<>>, <<>>) :
           token \in S.tokens, path \in S.ids}
      \cup {Request("medscribe_api", "UpdateFollowUp.put", token, path, <<>>, data) :
           token \in S.tokens, path \in S.ids, data \in S.data["UpdateFollowUp.put"]}
      \cup {Request("medscribe_api", "MedicineGroups.get", token, <<>>, <<>>, <<>>) :
           token \in S.tokens}
      \cup {Request("medscribe_api", "MedicineCompanies.get", token, <<>>, <<>>, <<>>) :
           token \in S.tokens}
      \cup {Request("medscribe_api", "MedicinesByGroup.get", token, path, <<>>, <<>>) :
           token \in S.tokens, path \in S.labels}
      \cup {Request("medscribe_api", "MedicinesByCompany.get", token, path, <<>>, <<>>) :
           token \in S.tokens, path \in S.labels}

(***************************************************************************)
(* State machine: one request at a time, idle -> responded -> idle         *)
(***************************************************************************)
NoRequest == [endpoint |-> "none"]

NoReturn == [runs |-> 0]

NoResponse == [status |-> 0]

NotKept == [kept |-> FALSE]

NoWrite == [endpoint |-> "none"]

Workers == {1, 2}

IdleContext ==
    [pc |-> "idle", request |-> NoRequest, jwt |-> MissingToken,
     returned |-> NoReturn, response |-> NoResponse, drawn |-> NoDraw]

Init ==
    /\ pc = "idle"
    /\ request = NoRequest
    /\ returned = NoReturn
    /\ response = NoResponse
    /\ runs = 0
    /\ drawn = NoDraw
    /\ remembered = NotKept
    /\ before = NotKept
    /\ written = NoWrite
    /\ issued = NotKept
    /\ contexts = [w \in Workers |-> IdleContext]

\* the exchange of a request: served is what its decorated handler gives,
\* reads the number of clock reads of one run of the handler
Handle(req, d, served, reads) ==
    /\ request' = req
    /\ returned' = served
    /\ response' = Respond(served)
    /\ runs' = served.runs
    /\ drawn' = Uses(req, d, served.runs, reads)

Login_post(S) ==
    /\ pc = "idle"
    /\ \E req \in Requests(S), u1 \in S.uuids :
           /\ req.endpoint = "Login.post"
           /\ Handle(req, Draw(u1, <<>>, <<>>),
                     Ran(Login_post_body(req.data, u1), 1),
                     0)
    /\ pc' = "responded"
    /\ UNCHANGED <<observers, contexts>>

DoctorRegister_post(S) ==
    /\ pc = "idle"
    /\ \E req \in Requests(S), u1 \in S.uuids :
           /\ req.endpoint = "DoctorRegister.post"
           /\ Handle(req, Draw(u1, <<>>, <<>>),
                     Ran(DoctorRegister_post_body(req.data, u1), 1),
                     0)
    /\ pc' = "responded"
    /\ UNCHANGED <<observers, contexts>>

PatientRegister_post(S) ==
    /\ pc = "idle"
    /\ \E req \in Requests(S), u1 \in S.uuids :
           /\ req.endpoint = "PatientRegister.post"
           /\ Handle(req, Draw(u1, <<>>, <<>>),
                     Ran(PatientRegister_post_body(req.data, u1), 1),
                     0)
    /\ pc' = "responded"
    /\ UNCHANGED <<observers, contexts>>

DoctorList_get(S) ==
    /\ pc = "idle"
    /\ \E req \in Requests(S) :
           /\ req.endpoint = "DoctorList.get"
           /\ Handle(req, NoDraw,
                     jwt_optional(req.token,
                                  DoctorList_get_body),
                     0)
    /\ pc' = "responded"
    /\ UNCHANGED <<observers, contexts>>

Doctor_get(S) ==
    /\ pc = "idle"
    /\ \E req \in Requests(S) :
           /\ req.endpoint = "Doctor.get"
           /\ Handle(req, NoDraw,
                     jwt_optional(req.token,
                                  Doctor_get_body(req.path)),
                     0)
    /\ pc' = "responded"
    /\ UNCHANGED <<observers, contexts>>

Doctor_put(S) ==
    /\ pc = "idle"
    /\ \E req \in Requests(S) :
           /\ req.endpoint = "Doctor.put"
           /\ Handle(req, NoDraw,
                     jwt_required(req.token,
                                  Doctor_put_body(req.path, req.data)),
                     0)
    /\ pc' = "responded"
    /\ UNCHANGED <<observers, contexts>>

Doctor_delete(S) ==
    /\ pc = "idle"
    /\ \E req \in Requests(S) :
           /\ req.endpoint = "Doctor.delete"
           /\ Handle(req, NoDraw,
                     jwt_required(req.token,
                                  Doctor_delete_body(req.path)),
                     0)
    /\ pc' = "responded"
    /\ UNCHANGED <<observers, contexts>>

DoctorPatients_get(S) ==
    /\ pc = "idle"
    /\ \E req \in Requests(S), u1 \in S.uuids, u2 \in S.uuids :
           /\ req.endpoint = "DoctorPatients.get"
           /\ Handle(req, Draw(u1, u2, <<>>),
                     jwt_required(req.token,
                                  DoctorPatients_get_body(req.path, u1, u2)),
                     0)
    /\ pc' = "responded"
    /\ UNCHANGED <<observers, contexts>>

PatientList_get(S) ==
    /\ pc = "idle"
    /\ \E req \in Requests(S) :
           /\ req.endpoint = "PatientList.get"
           /\ Handle(req, NoDraw,
                     jwt_optional(req.token,
                                  PatientList_get_body),
                     0)
    /\ pc' = "responded"
    /\ UNCHANGED <<observers, contexts>>

Patient_get(S) ==
    /\ pc = "idle"
    /\ \E req \in Requests(S) :
           /\ req.endpoint = "Patient.get"
           /\ Handle(req, NoDraw,
                     jwt_optional(req.token,
                                  Patient_get_body(req.path)),
                     0)
    /\ pc' = "responded"
    /\ UNCHANGED <<observers, contexts>>

Patient_put(S) ==
    /\ pc = "idle"
    /\ \E req \in Requests(S) :
           /\ req.endpoint = "Patient.put"
           /\ Handle(req, NoDraw,
                     jwt_required(req.token,
                                  Patient_put_body(req.path, req.data)),
                     0)
    /\ pc' = "responded"
    /\ UNCHANGED <<observers, contexts>>

Patient_delete(S) ==
    /\ pc = "idle"
    /\ \E req \in Requests(S) :
           /\ req.endpoint = "Patient.delete"
           /\ Handle(req, NoDraw,
                     jwt_required(req.token,
                                  Patient_delete_body(req.path)),
                     0)
    /\ pc' = "responded"
    /\ UNCHANGED <<observers, contexts>>

PrescriptionList_get(S) ==
    /\ pc = "idle"
    /\ \E req \in Requests(S) :
           /\ req.endpoint = "PrescriptionList.get"
           /\ Handle(req, NoDraw,
                     jwt_optional(req.token,
                                  PrescriptionList_get_body),
                     0)
    /\ pc' = "responded"
    /\ UNCHANGED <<observers, contexts>>

PrescriptionList_post(S) ==
    /\ pc = "idle"
    /\ \E req \in Requests(S), u1 \in S.uuids, now \in Readings(S.clock, 1) :
           /\ req.endpoint = "PrescriptionList.post"
           /\ Handle(req, Draw(u1, <<>>, now),
                     jwt_optional(req.token,
                                  PrescriptionList_post_body(Verified(req.token), req.data, u1, now[1])),
                     1)
    /\ pc' = "responded"
    /\ UNCHANGED <<observers, contexts>>

Prescription_get(S) ==
    /\ pc = "idle"
    /\ \E req \in Requests(S) :
           /\ req.endpoint = "Prescription.get"
           /\ Handle(req, NoDraw,
                     jwt_optional(req.token,
                                  Prescription_get_body(req.path)),
                     0)
    /\ pc' = "responded"
    /\ UNCHANGED <<observers, contexts>>

Prescription_put(S) ==
    /\ pc = "idle"
    /\ \E req \in Requests(S), now \in Readings(S.clock, 2) :
           /\ req.endpoint = "Prescription.put"
           /\ Handle(req, Draw(<<>>, <<>>, now),
                     jwt_optional(req.token,
                                  Prescription_put_body(Verified(req.token), req.path, req.data, now)),
                     Prescription_put_reads(req.data))
    /\ pc' = "responded"
    /\ UNCHANGED <<observers, contexts>>

DoctorPrescriptions_get(S) ==
    /\ pc = "idle"
    /\ \E req \in Requests(S) :
           /\ req.endpoint = "DoctorPrescriptions.get"
           /\ Handle(req, NoDraw,
                     jwt_optional(req.token,
                                  DoctorPrescriptions_get_body(req.path)),
                     0)
    /\ pc' = "responded"
    /\ UNCHANGED <<observers, contexts>>

PatientPrescriptions_get(S) ==
    /\ pc = "idle"
    /\ \E req \in Requests(S) :
           /\ req.endpoint = "PatientPrescriptions.get"
           /\ Handle(req, NoDraw,
                     jwt_optional(req.token,
                                  PatientPrescriptions_get_body(req.path)),
                     0)
    /\ pc' = "responded"
    /\ UNCHANGED <<observers, contexts>>

MedicineList_get(S) ==
    /\ pc = "idle"
    /\ \E req \in Requests(S) :
           /\ req.endpoint = "MedicineList.get"
           /\ Handle(req, NoDraw,
                     jwt_optional(req.token,
                                  MedicineList_get_body(req.app)),
                     0)
    /\ pc' = "responded"
    /\ UNCHANGED <<observers, contexts>>

MedicineSearch_get(S) ==
    /\ pc = "idle"
    /\ \E req \in Requests(S) :
           /\ req.endpoint = "MedicineSearch.get"
           /\ Handle(req, NoDraw,
                     jwt_optional(req.token,
                                  MedicineSearch_get_body(req.args)),
                     0)
    /\ pc' = "responded"
    /\ UNCHANGED <<observers, contexts>>

HealthTipList_get(S) ==
    /\ pc = "idle"
    /\ \E req \in Requests(S) :
           /\ req.endpoint = "HealthTipList.get"
           /\ Handle(req, NoDraw,
                     jwt_optional(req.token,
                                  HealthTipList_get_body),
                     0)
    /\ pc' = "responded"
    /\ UNCHANGED <<observers, contexts>>

HealthTipList_post(S) ==
    /\ pc = "idle"
    /\ \E req \in Requests(S), u1 \in S.uuids, now \in Readings(S.clock, 1) :
           /\ req.endpoint = "HealthTipList.post"
           /\ Handle(req, Draw(u1, <<>>, now),
                     jwt_optional(req.token,
                                  HealthTipList_post_body(req.data, u1, now[1])),
                     1)
    /\ pc' = "responded"
    /\ UNCHANGED <<observers, contexts>>

HealthTip_get(S) ==
    /\ pc = "idle"
    /\ \E req \in Requests(S) :
           /\ req.endpoint = "HealthTip.get"
           /\ Handle(req, NoDraw,
                     jwt_optional(req.token,
                                  HealthTip_get_body(req.path)),
                     0)
    /\ pc' = "responded"
    /\ UNCHANGED <<observers, contexts>>

PatientHealthTips_get(S) ==
    /\ pc = "idle"
    /\ \E req \in Requests(S) :
           /\ req.endpoint = "PatientHealthTips.get"
           /\ Handle(req, NoDraw,
                     jwt_optional(req.token,
                                  PatientHealthTips_get_body(req.path)),
                     0)
    /\ pc' = "responded"
    /\ UNCHANGED <<observers, contexts>>

PatientNotifications_get(S) ==
    /\ pc = "idle"
    /\ \E req \in Requests(S), now \in Readings(S.clock, 3) :
           /\ req.endpoint = "PatientNotifications.get"
           /\ Handle(req, Draw(<<>>, <<>>, now),
                     jwt_optional(req.token,
                                  PatientNotifications_get_body(req.path, now)),
                     3)
    /\ pc' = "responded"
    /\ UNCHANGED <<observers, contexts>>

UpdateNotification_put(S) ==
    /\ pc = "idle"
    /\ \E req \in Requests(S), now \in Readings(S.clock, 2) :
           /\ req.endpoint = "UpdateNotification.put"
           /\ Handle(req, Draw(<<>>, <<>>, now),
                     jwt_optional(req.token,
                                  UpdateNotification_put_body(req.path, req.data, now[1])),
                     1)
    /\ pc' = "responded"
    /\ UNCHANGED <<observers, contexts>>

PatientMedicationSchedule_get(S) ==
    /\ pc = "idle"
    /\ \E req \in Requests(S) :
           /\ req.endpoint = "PatientMedicationSchedule.get"
           /\ Handle(req, NoDraw,
                     jwt_optional(req.token,
                                  PatientMedicationSchedule_get_body(req.path)),
                     0)
    /\ pc' = "responded"
    /\ UNCHANGED <<observers, contexts>>

FollowUpList_get(S) ==
    /\ pc = "idle"
    /\ \E req \in Requests(S) :
           /\ req.endpoint = "FollowUpList.get"
           /\ Handle(req, NoDraw,
                     jwt_optional(req.token,
                                  FollowUpList_get_body),
                     0)
    /\ pc' = "responded"
    /\ UNCHANGED <<observers, contexts>>

DoctorFollowUps_get(S) ==
    /\ pc = "idle"
    /\ \E req \in Requests(S) :
           /\ req.endpoint = "DoctorFollowUps.get"
           /\ Handle(req, NoDraw,
                     jwt_optional(req.token,
                                  DoctorFollowUps_get_body(req.path)),
                     0)
    /\ pc' = "responded"
    /\ UNCHANGED <<observers, contexts>>

DoctorDueFollowUps_get(S) ==
    /\ pc = "idle"
    /\ \E req \in Requests(S), now \in Readings(S.clock, 3) :
           /\ req.endpoint = "DoctorDueFollowUps.get"
           /\ Handle(req, Draw(<<>>, <<>>, now),
                     jwt_optional(req.token,
                                  DoctorDueFollowUps_get_body(req.path, now)),
                     3)
    /\ pc' = "responded"
    /\ UNCHANGED <<observers, contexts>>

PatientFollowUps_get(S) ==
    /\ pc = "idle"
    /\ \E req \in Requests(S) :
           /\ req.endpoint = "PatientFollowUps.get"
           /\ Handle(req, NoDraw,
                     jwt_optional(req.token,
                                  PatientFollowUps_get_body(req.path)),
                     0)
    /\ pc' = "responded"
    /\ UNCHANGED <<observers, contexts>>

UpdateFollowUp_put(S) ==
    /\ pc = "idle"
    /\ \E req \in Requests(S) :
           /\ req.endpoint = "UpdateFollowUp.put"
           /\ Handle(req, NoDraw,
                     jwt_optional(req.token,
                                  UpdateFollowUp_put_body(req.path, req.data)),
                     0)
    /\ pc' = "responded"
    /\ UNCHANGED <<observers, contexts>>

MedicineGroups_get(S) ==
    /\ pc = "idle"
    /\ \E req \in Requests(S) :
           /\ req.endpoint = "MedicineGroups.get"
           /\ Handle(req, NoDraw,
                     jwt_optional(req.token,
                                  MedicineGroups_get_body),
                     0)
    /\ pc' = "responded"
    /\ UNCHANGED <<observers, contexts>>

MedicineCompanies_get(S) ==
    /\ pc = "idle"
    /\ \E req \in Requests(S) :
           /\ req.endpoint = "MedicineCompanies.get"
           /\ Handle(req, NoDraw,
                     jwt_optional(req.token,
                                  MedicineCompanies_get_body),
                     0)
    /\ pc' = "responded"
    /\ UNCHANGED <<observers, contexts>>

MedicinesByGroup_get(S) ==
    /\ pc = "idle"
    /\ \E req \in Requests(S) :
           /\ req.endpoint = "MedicinesByGroup.get"
           /\ Handle(req, NoDraw,
                     jwt_optional(req.token,
                                  MedicinesByGroup_get_body(req.path)),
                     0)
    /\ pc' = "responded"
    /\ UNCHANGED <<observers, contexts>>

MedicinesByCompany_get(S) ==
    /\ pc = "idle"
    /\ \E req \in Requests(S) :
           /\ req.endpoint = "MedicinesByCompany.get"
           /\ Handle(req, NoDraw,
                     jwt_optional(req.token,
                                  MedicinesByCompany_get_body(req.path)),
                     0)
    /\ pc' = "responded"
    /\ UNCHANGED <<observers, contexts>>

Handlers(S) ==
    \/ Login_post(S)
    \/ DoctorRegister_post(S)
    \/ PatientRegister_post(S)
    \/ DoctorList_get(S)
    \/ Doctor_get(S)
    \/ Doctor_put(S)
    \/ Doctor_delete(S)
    \/ DoctorPatients_get(S)
    \/ PatientList_get(S)
    \/ Patient_get(S)
    \/ Patient_put(S)
    \/ Patient_delete(S)
    \/ PrescriptionList_get(S)
    \/ PrescriptionList_post(S)
    \/ Prescription_get(S)
    \/ Prescription_put(S)
    \/ DoctorPrescriptions_get(S)
    \/ PatientPrescriptions_get(S)
    \/ MedicineList_get(S)
    \/ MedicineSearch_get(S)
    \/ HealthTipList_get(S)
    \/ HealthTipList_post(S)
    \/ HealthTip_get(S)
    \/ PatientHealthTips_get(S)
    \/ PatientNotifications_get(S)
    \/ UpdateNotification_put(S)
    \/ PatientMedicationSchedule_get(S)
    \/ FollowUpList_get(S)
    \/ DoctorFollowUps_get(S)
    \/ DoctorDueFollowUps_get(S)
    \/ PatientFollowUps_get(S)
    \/ UpdateFollowUp_put(S)
    \/ MedicineGroups_get(S)
    \/ MedicineCompanies_get(S)
    \/ MedicinesByGroup_get(S)
    \/ MedicinesByCompany_get(S)

\* the response has been sent; nothing of the request is kept
Finish ==
    /\ pc = "responded"
    /\ pc' = "idle"
    /\ request' = NoRequest
    /\ returned' = NoReturn
    /\ response' = NoResponse
    /\ runs' = 0
    /\ drawn' = NoDraw
    /\ UNCHANGED <<observers, contexts>>

Next ==
    \/ Handlers(Full)
    \/ Finish

Spec == Init /\ [][Next]_vars

(***************************************************************************)
(* Observers: specifications that keep something of an earlier request     *)
(***************************************************************************)
ReadEndpoints ==
    {"DoctorList.get", "Doctor.get", "DoctorPatients.get", "PatientList.get",
     "Patient.get", "PrescriptionList.get", "Prescription.get",
     "DoctorPrescriptions.get", "PatientPrescriptions.get", "MedicineList.get",
     "MedicineSearch.get", "HealthTipList.get", "HealthTip.get",
     "PatientHealthTips.get", "PatientNotifications.get",
     "PatientMedicationSchedule.get", "FollowUpList.get", "DoctorFollowUps.get",
     "DoctorDueFollowUps.get", "PatientFollowUps.get", "MedicineGroups.get",
     "MedicineCompanies.get", "MedicinesByGroup.get", "MedicinesByCompany.get"}

WriteEndpoints ==
    {"Login.post", "DoctorRegister.post", "PatientRegister.post", "Doctor.put",
     "Doctor.delete", "Patient.put", "Patient.delete", "PrescriptionList.post",
     "Prescription.put", "HealthTipList.post", "UpdateNotification.put",
     "UpdateFollowUp.put"}

\* keeps one search exchange to compare later ones with
Remember ==
    /\ pc = "responded"
    /\ request.endpoint = "MedicineSearch.get"
    /\ remembered' = [kept |-> TRUE, args |-> request.args, response |-> response]
    /\ UNCHANGED <<pc, request, returned, response, runs, drawn, before, written, issued, contexts>>

\* the inputs of SpecHistory: every search query up to MaxHistoryQueryLen
History == [Few EXCEPT !.queries = QueryArgs(MaxHistoryQueryLen)]

NextHistory ==
    \/ Handlers(History)
    \/ Remember
    \/ Finish

SpecHistory == Init /\ [][NextHistory]_vars

\* keeps one read exchange; the writes handled from now on are noted
RememberRead ==
    /\ pc = "responded"
    /\ request.endpoint \in ReadEndpoints
    /\ before' = [kept |-> TRUE, request |-> request, response |-> response]
    /\ written' = NoWrite
    /\ UNCHANGED <<pc, request, returned, response, runs, drawn, remembered, issued, contexts>>

\* notes the write that has just been carried out
NoteWrite ==
    /\ pc = "responded"
    /\ request.endpoint \in WriteEndpoints
    /\ response.status \in {200, 201, 204}
    /\ before.kept
    /\ written' = [endpoint |-> request.endpoint, path |-> request.path]
    /\ UNCHANGED <<pc, request, returned, response, runs, drawn, remembered, before, issued, contexts>>

\* the inputs of SpecFrame
Frame ==
    [Few EXCEPT !.apps = {"medscribe_api"},
                !.labels = {<<"A", "C", "E", " ", "I", "n", "h", "i", "b", "i", "t", "o", "r">>, <<"n", "o", "n", "e", "x", "i", "s", "t", "e", "n", "t">>},
                !.queries = {<<>>, [query |-> <<"l", "i", "s", "i", "n">>]},
                !.uuids = {UuidStr("0", "d"), UuidStr("d", "0")},
                !.clock = {datetime(2026, 10, 29, 9, 15), datetime(2026, 12, 31, 0, 0)}]

NextFrame ==
    \/ Handlers(Frame)
    \/ RememberRead
    \/ NoteWrite
    \/ Finish

SpecFrame == Init /\ [][NextFrame]_vars

\* the identifiers the handler generated, read in the record it returns
GeneratedIds ==
    IF request.endpoint \in {"Login.post", "DoctorRegister.post", "PatientRegister.post"}
    THEN {returned.body.user.id}
    ELSE IF request.endpoint = "DoctorPatients.get"
    THEN {returned.body[k].id : k \in 1..Len(returned.body)}
    ELSE {returned.body.id}

Generated ==
    /\ pc = "responded"
    /\ request.endpoint \in {"Login.post", "DoctorRegister.post", "PatientRegister.post",
                             "DoctorPatients.get", "PrescriptionList.post",
                             "HealthTipList.post"}
    /\ ~returned.raised
    /\ returned.status \in {200, 201}

\* keeps the identifiers one request generated, and the UUIDs it drew
Issue ==
    /\ Generated
    /\ issued' = [kept |-> TRUE, endpoint |-> request.endpoint,
                  uuids |-> {drawn.u1, drawn.u2} \ {<<>>}, ids |-> GeneratedIds]
    /\ UNCHANGED <<pc, request, returned, response, runs, drawn, remembered, before, written, contexts>>

NextIds ==
    \/ Handlers(Few)
    \/ Issue
    \/ Finish

SpecIds == Init /\ [][NextIds]_vars

(***************************************************************************)
(* Concurrent handling: every worker thread has its own request context    *)
(***************************************************************************)
\* the inputs of the concurrent specification
Two ==
    [Few EXCEPT !.apps = {"medscribe_api"}, !.ids = {<<"x">>},
                !.labels = {<<"A", "C", "E", " ", "I", "n", "h", "i", "b", "i", "t", "o", "r">>}, !.queries = {[query |-> <<"l", "i", "s", "i", "n">>]},
                !.uuids = {UuidStr("0", "d")},
                !.clock = {datetime(2026, 10, 29, 9, 15)}]

ContextJwt_shared(w) ==
    IF \E o \in Workers : contexts[o].jwt.kind = "valid"
    THEN contexts[CHOOSE o \in Workers : contexts[o].jwt.kind = "valid"].jwt
    ELSE contexts[w].jwt

\* get_jwt_identity() reads the token verified in the caller's own context
ContextJwt(w) == contexts[w].jwt

\* a worker accepts a request and pushes its request context
Receive(w, S) ==
    /\ contexts[w].pc = "idle"
    /\ \E req \in Requests(S) :
           contexts' = [contexts EXCEPT ![w] =
                           [IdleContext EXCEPT !.pc = "received", !.request = req]]
    /\ UNCHANGED <<pc, request, returned, response, runs, drawn, observers>>

\* the decorator verifies the token: jwt_required rejects the request,
\* jwt_optional goes on without an identity
Verify(w) ==
    /\ contexts[w].pc = "received"
    /\ LET req == contexts[w].request
       IN  IF req.endpoint \in jwt_required_endpoints /\ req.token.kind # "valid"
           THEN contexts' = [contexts EXCEPT
                    ![w].pc = "responded",
                    ![w].returned = jwt_required(req.token, Raise("unreachable")),
                    ![w].response = Respond(jwt_required(req.token, Raise("unreachable")))]
           ELSE contexts' = [contexts EXCEPT
                    ![w].pc = "verified",
                    ![w].jwt = IF req.endpoint \in jwt_required_endpoints \cup jwt_optional_endpoints
                               THEN Verified(req.token) ELSE MissingToken]
    /\ UNCHANGED <<pc, request, returned, response, runs, drawn, observers>>

\* the handler body runs in the worker's context; under jwt_optional a body
\* that raises after a verified token runs a second time
Run(w, S) ==
    /\ contexts[w].pc = "verified"
    /\ \E u1 \in S.uuids, u2 \in S.uuids, now \in Readings(S.clock, 3) :
           LET req == contexts[w].request
               Ends(served) ==
                   contexts' = [contexts EXCEPT
                       ![w].pc = "responded",
                       ![w].drawn = Uses(req, Draw(u1, u2, now), served.runs,
                                         ClockReads(req)),
                       ![w].returned = served,
                       ![w].response = Respond(served)]
               Decorated(fn_outcome) ==
                   IF req.endpoint \in jwt_optional_endpoints
                   THEN jwt_optional(req.token, fn_outcome)
                   ELSE Ran(fn_outcome, 1)
           IN  Ends(Decorated(Body(req, ContextJwt(w), Draw(u1, u2, now))))
    /\ UNCHANGED <<pc, request, returned, response, runs, drawn, observers>>

\* the response is sent and the context popped
Send(w) ==
    /\ contexts[w].pc = "responded"
    /\ contexts' = [contexts EXCEPT ![w] = IdleContext]
    /\ UNCHANGED <<pc, request, returned, response, runs, drawn, observers>>

NextConcurrent ==
    \/ \E w \in Workers : Receive(w, Two)
    \/ \E w \in Workers : Verify(w)
    \/ \E w \in Workers : Run(w, Two)
    \/ \E w \in Workers : Send(w)

SpecConcurrent == Init /\ [][NextConcurrent]_vars

(***************************************************************************)
(* Vocabulary of the properties                                            *)
(***************************************************************************)
Responded(endpoint) == pc = "responded" /\ request.endpoint = endpoint

Searched == Responded("MedicineSearch.get")

SearchedQuery == Get(request.args, "query", <<>>)

\* s begins with p
StartsWith(s, p) == Len(s) >= Len(p) /\ SubSeq(s, 1, Len(p)) = p

\* two characters are the same letter up to ASCII case
SameLetter(a, b) ==
    \/ a = b
    \/ \E k \in 1..Len(UpperCase) : {a, b} = {UpperCase[k], LowerCase[k]}

\* q occurs in name at some offset, letter case ignored
CaseInsensitiveSubstring(q, name) ==
    \E i \in 0..(Len(name) - Len(q)) :
        \A k \in 1..Len(q) : SameLetter(q[k], name[i + k])

DiffersOnlyInCase(a, b) ==
    /\ a # b
    /\ Len(a) = Len(b)
    /\ \A k \in 1..Len(a) : SameLetter(a[k], b[k])

CatalogIndex(med) == CHOOSE k \in 1..Len(all_medicines) : all_medicines[k] = med

Names(records) == [k \in 1..Len(records) |-> records[k].name]

Ids(records) == [k \in 1..Len(records) |-> records[k].id]

IsAscii(s) == \A k \in 1..Len(s) : s[k] # LongS

SameArgs(a, b) ==
    /\ DOMAIN a = DOMAIN b
    /\ "query" \in DOMAIN a => a.query = b.query

\* every extended record some facet lookup serves
ExtendedRecords ==
    UNION {Range(medicines_by_group(l)) \cup Range(medicines_by_company(l)) : l \in Labels}

LisinoprilNames == <<<<"L", "i", "s", "i", "n", "o", "p", "r", "i", "l", " ", "5", "m", "g">>, <<"L", "i", "s", "i", "n", "o", "p", "r", "i", "l", " ", "1", "0", "m", "g">>, <<"L", "i", "s", "i", "n", "o", "p", "r", "i", "l", " ", "2", "0", "m", "g">>>>

AtorvastatinNames ==
    <<<<"A", "t", "o", "r", "v", "a", "s", "t", "a", "t", "i", "n", " ", "1", "0", "m", "g">>, <<"A", "t", "o", "r", "v", "a", "s", "t", "a", "t", "i", "n", " ", "2", "0", "m", "g">>, <<"A", "t", "o", "r", "v", "a", "s", "t", "a", "t", "i", "n", " ", "4", "0", "m", "g">>,
      <<"A", "t", "o", "r", "v", "a", "s", "t", "a", "t", "i", "n", " ", "8", "0", "m", "g">>>>

CatalogIds ==
    <<<<"m", "e", "d", "-", "1">>, <<"m", "e", "d", "-", "2">>, <<"m", "e", "d", "-", "3">>, <<"m", "e", "d", "-", "4">>, <<"m", "e", "d", "-", "5">>, <<"m", "e", "d", "-", "6">>, <<"m", "e", "d", "-", "7">>,
      <<"m", "e", "d", "-", "8">>, <<"m", "e", "d", "-", "9">>, <<"m", "e", "d", "-", "1", "0">>, <<"m", "e", "d", "-", "1", "1">>, <<"m", "e", "d", "-", "1", "2">>, <<"m", "e", "d", "-", "1", "3">>, <<"m", "e", "d", "-", "1", "4">>>>

(***************************************************************************)
(* Properties                                                              *)
(***************************************************************************)

\* C1: for a non-empty query the search returns exactly the catalog records
\* whose name contains the query as a case-insensitive substring: only
\* matching records, every matching record, in catalog order.
C1_SearchReturnsExactlyTheMatches ==
    (Searched /\ Len(SearchedQuery) > 0) =>
        /\ response.status = 200
        /\ \A k \in 1..Len(response.body) :
               /\ response.body[k] \in Range(all_medicines)
               /\ CaseInsensitiveSubstring(SearchedQuery, response.body[k].name)
        /\ \A med \in Range(all_medicines) :
               CaseInsensitiveSubstring(SearchedQuery, med.name)
                   => med \in Range(response.body)
        /\ \A a, b \in 1..Len(response.body) :
               a < b => CatalogIndex(response.body[a]) < CatalogIndex(response.body[b])

C1_Witness ==
    /\ Searched
    /\ SearchedQuery = <<"L", "I", "S", "I", "N">>
    /\ Len(response.body) = 3

\* C2: with an empty or absent query parameter the search returns the full
\* catalog med-1 .. med-14, unfiltered and in original order.
C2_EmptyQueryReturnsFullCatalog ==
    (Searched /\ Len(SearchedQuery) = 0) =>
        /\ response.status = 200
        /\ response.body = all_medicines
        /\ Ids(response.body) = CatalogIds

C2_Witness ==
    /\ Searched
    /\ "query" \notin DOMAIN request.args
    /\ Len(response.body) = 14

\* C3 as stated: query=lisin returns exactly the three Lisinopril entries, and
\* for ANY query the result equals the result for its upper-cased and for its
\* lower-cased form.
C3_AnyQueryCaseInvariant ==
    Searched =>
        /\ SearchedQuery = <<"l", "i", "s", "i", "n">> => Names(response.body) = LisinoprilNames
        /\ response.body = filtered_medicines(upper(SearchedQuery))
        /\ response.body = filtered_medicines(lower(SearchedQuery))

\* C3 amended: query=lisin returns exactly the three Lisinopril entries, and
\* for any query made of ASCII characters the result equals the result for
\* its upper-cased and for its lower-cased form.
C3_AsciiQueryCaseInvariant ==
    (Searched /\ IsAscii(SearchedQuery)) =>
        /\ SearchedQuery = <<"l", "i", "s", "i", "n">> => Names(response.body) = LisinoprilNames
        /\ response.body = filtered_medicines(upper(SearchedQuery))
        /\ response.body = filtered_medicines(lower(SearchedQuery))

C3_Witness ==
    /\ Searched
    /\ SearchedQuery = <<"L", "i", "s", "i", "n">>
    /\ Names(response.body) = LisinoprilNames

\* C4: the search is idempotent: a search answers as an earlier search with
\* the same query did, whatever requests were handled in between.
C4_SearchIdempotent ==
    (Searched /\ remembered.kept /\ SameArgs(remembered.args, request.args)) =>
        response = remembered.response

C4_Witness ==
    /\ Searched
    /\ remembered.kept
    /\ SameArgs(remembered.args, request.args)
    /\ SearchedQuery = <<"s">>
    /\ Len(response.body) = 9

\* C5 as stated: by-group "ACE Inhibitor" returns exactly the three
\* Lisinopril entries and no other record.
C5_AceInhibitorIsLisinoprilOnly ==
    (Responded("MedicinesByGroup.get") /\ request.path = <<"A", "C", "E", " ", "I", "n", "h", "i", "b", "i", "t", "o", "r">>) =>
        Names(response.body) = LisinoprilNames

\* C6: by-group "Statin" returns exactly the four Atorvastatin entries
\* 10mg, 20mg, 40mg, 80mg in that order, each with company "Pfizer".
C6_StatinIsAtorvastatinByPfizer ==
    (Responded("MedicinesByGroup.get") /\ request.path = <<"S", "t", "a", "t", "i", "n">>) =>
        /\ response.status = 200
        /\ Names(response.body) = AtorvastatinNames
        /\ \A k \in 1..Len(response.body) : response.body[k].company = <<"P", "f", "i", "z", "e", "r">>

C6_Witness ==
    /\ Responded("MedicinesByGroup.get")
    /\ request.path = <<"S", "t", "a", "t", "i", "n">>
    /\ Len(response.body) = 4

\* C7: every record returned by by-group/g has its group exactly equal to g,
\* so a label differing only in letter case from a published group returns
\* no record.
C7_GroupComparedCaseSensitively ==
    Responded("MedicinesByGroup.get") =>
        /\ \A k \in 1..Len(response.body) : response.body[k].group = request.path
        /\ (\E g \in Range(groups) : DiffersOnlyInCase(g, request.path))
               => response.body = <<>>

C7_Witness ==
    /\ Responded("MedicinesByGroup.get")
    /\ request.path = <<"s", "t", "a", "t", "i", "n">>
    /\ response.body = <<>>

\* C8: a group or company value that matches no record yields an empty
\* sequence with status 200, never an error.
C8_NoMatchIsEmptySuccess ==
    /\ (/\ Responded("MedicinesByGroup.get")
        /\ \A r \in ExtendedRecords : r.group # request.path)
           => (response.status = 200 /\ response.body = <<>>)
    /\ (/\ Responded("MedicinesByCompany.get")
        /\ \A r \in ExtendedRecords : r.company # request.path)
           => (response.status = 200 /\ response.body = <<>>)

C8_Witness ==
    /\ Responded("MedicinesByCompany.get")
    /\ request.path = <<"n", "o", "n", "e", "x", "i", "s", "t", "e", "n", "t">>
    /\ response.status = 200

\* C9: both facet lookups are complete: every extended record r that a facet
\* endpoint serves is returned by by-company/{r.company} and by
\* by-group/{r.group}.
C9_FacetLookupsComplete ==
    /\ Responded("MedicinesByGroup.get") =>
           \A r \in ExtendedRecords :
               r.group = request.path => r \in Range(response.body)
    /\ Responded("MedicinesByCompany.get") =>
           \A r \in ExtendedRecords :
               r.company = request.path => r \in Range(response.body)

\* C10: every generated identifier starts with the prefix of its entity kind:
\* usr- at login, doc- at doctor registration, pat- at patient registration
\* and in a doctor's patient list, pres- for a created prescription, tip- for
\* a created health tip; the last two are read in the record the handler
\* returns.
C10_GeneratedIdsCarryKindPrefix ==
    /\ Responded("Login.post") => StartsWith(response.body.user.id, <<"u", "s", "r", "-">>)
    /\ Responded("DoctorRegister.post") => StartsWith(response.body.user.id, <<"d", "o", "c", "-">>)
    /\ Responded("PatientRegister.post") => StartsWith(response.body.user.id, <<"p", "a", "t", "-">>)
    /\ (Responded("DoctorPatients.get") /\ response.status = 200) =>
           \A k \in 1..Len(response.body) : StartsWith(response.body[k].id, <<"p", "a", "t", "-">>)
    /\ (Responded("PrescriptionList.post") /\ ~returned.raised) =>
           StartsWith(returned.body.id, <<"p", "r", "e", "s", "-">>)
    /\ (Responded("HealthTipList.post") /\ ~returned.raised) =>
           StartsWith(returned.body.id, <<"t", "i", "p", "-">>)

(***************************************************************************)
(* Vocabulary of the properties about identities, tokens and state         *)
(***************************************************************************)
\* p occurs in s at some offset, character for character
HasSubstring(s, p) ==
    \E i \in 0..(Len(s) - Len(p)) : \A k \in 1..Len(p) : s[i + k] = p[k]

EndsWith(s, p) == Len(s) >= Len(p) /\ SubSeq(s, Len(s) - Len(p) + 1, Len(s)) = p

\* a JSON object without some of its fields
Without(object, fields) == [f \in (DOMAIN object) \ fields |-> object[f]]

\* a JSON array of objects without some of their fields
EachWithout(array, fields) == [k \in DOMAIN array |-> Without(array[k], fields)]

\* the request in hand, sent with another Authorization header
WithToken(token) == [request EXCEPT !.token = token]

\* the request in hand, sent with another password
WithPassword(password) == [request EXCEPT !.data.password = password]

\* the UUIDs the request in hand drew
DrawnUuids == {drawn.u1, drawn.u2} \ {<<>>}

\* a response without its random and clock-derived values
Stable(endpoint, resp) ==
    IF resp.status # 200 THEN resp
    ELSE IF endpoint = "DoctorPatients.get"
    THEN [resp EXCEPT !.body = EachWithout(@, {"id"})]
    ELSE IF endpoint = "PatientNotifications.get"
    THEN [resp EXCEPT !.body = EachWithout(@, {"scheduledTime"})]
    ELSE IF endpoint = "DoctorDueFollowUps.get"
    THEN [resp EXCEPT !.body = EachWithout(@, {"scheduledDate"})]
    ELSE resp

TokenRejected == response.status \in {401, 422}

(***************************************************************************)
(* Properties of identifiers, authentication and state                     *)
(***************************************************************************)

\* C11 as stated: successive identifier generations of one kind yield no
\* duplicate: two requests to the same generating endpoint that drew
\* different UUIDs never carry the same generated identifier.
C11_SuccessiveIdsDistinct ==
    (/\ Generated
     /\ issued.kept
     /\ issued.endpoint = request.endpoint
     /\ DrawnUuids \cap issued.uuids = {})
        => GeneratedIds \cap issued.ids = {}

\* C12 as stated: on every endpoint that accepts a bearer token, a request
\* whose token is missing or malformed gets the success response the same
\* request gets with a valid token.
C12_TokenAdvisoryEverywhere ==
    (/\ pc = "responded"
     /\ request.endpoint \in jwt_required_endpoints \cup jwt_optional_endpoints
     /\ request.token.kind # "valid")
        => /\ response = Respond(Serve(WithToken(ValidToken), drawn))
           /\ ~TokenRejected

\* the record the handler returns to the request in hand sent with a valid
\* token
ReturnedToValid == Serve(WithToken(ValidToken), drawn)

\* C12 amended: on the endpoints wrapped by jwt_optional a request whose token
\* is missing or malformed is processed unauthenticated and gets the response
\* the same request gets with a valid token; the handlers of POST
\* /prescriptions and PUT /prescriptions/{id} then return a record that
\* differs in its doctorId alone, the mock doctorId; the endpoints
\* under jwt_required (GET /doctors/{id}/patients, PUT and DELETE on
\* /doctors/{id} and /patients/{id}) reject such a request with 401 or 422.
C12_TokenAdvisoryUnderJwtOptional ==
    (pc = "responded" /\ request.token.kind # "valid") =>
        LET valid == Respond(Serve(WithToken(ValidToken), drawn))
        IN  /\ request.endpoint \in jwt_optional_endpoints =>
                /\ runs = 1
                /\ ~TokenRejected
                /\ response.status = valid.status
                /\ response.body = valid.body
                /\ returned.raised = ReturnedToValid.raised
                /\ ~returned.raised =>
                       /\ returned.status = ReturnedToValid.status
                       /\ IF request.endpoint \in {"PrescriptionList.post",
                                                   "Prescription.put"}
                          THEN /\ Without(returned.body, {"doctorId"})
                                   = Without(ReturnedToValid.body, {"doctorId"})
                               /\ returned.body.doctorId = <<"d", "o", "c", "-", "1", "2", "3", "4", "5", "6", "7", "8">>
                               /\ ReturnedToValid.body.doctorId = ValidToken.sub
                          ELSE returned.body = ReturnedToValid.body
            /\ request.endpoint \in jwt_required_endpoints => TokenRejected

C12_Witness ==
    /\ Responded("PatientMedicationSchedule.get")
    /\ request.token = MalformedToken
    /\ runs = 1
    /\ response.status = 200
    /\ response.body.patient.id = request.path

\* C13: login always succeeds with 200, a Bearer token and a fabricated user
\* whose email is the submitted one and whose role is doctor (Dr. Sarah
\* Williams) exactly when the email contains "doctor" in this very case,
\* else patient (John Smith).
C13_LoginAlwaysSucceeds ==
    Responded("Login.post") =>
        LET user == response.body.user
        IN  /\ response.status = 200
            /\ response.body.token_type = <<"B", "e", "a", "r", "e", "r">>
            /\ response.body.access_token.kind = "valid"
            /\ user.email = request.data.email
            /\ HasSubstring(request.data.email, <<"d", "o", "c", "t", "o", "r">>) =>
                   user.role = <<"d", "o", "c", "t", "o", "r">> /\ user.name = <<"D", "r", ".", " ", "S", "a", "r", "a", "h", " ", "W", "i", "l", "l", "i", "a", "m", "s">>
            /\ ~HasSubstring(request.data.email, <<"d", "o", "c", "t", "o", "r">>) =>
                   user.role = <<"p", "a", "t", "i", "e", "n", "t">> /\ user.name = <<"J", "o", "h", "n", " ", "S", "m", "i", "t", "h">>

C13_Witness ==
    /\ Responded("Login.post")
    /\ request.data.email = <<"D", "o", "c", "t", "o", "r", "@", "x", ".", "i", "o">>
    /\ response.status = 200
    /\ response.body.user.role = <<"p", "a", "t", "i", "e", "n", "t">>

\* C14: the password has no influence on login or registration: the same
\* request with any other password, whatever UUID it draws, gets the same
\* status and the same user email, name and role.
C14_PasswordHasNoInfluence ==
    (pc = "responded"
        /\ request.endpoint \in {"Login.post", "DoctorRegister.post", "PatientRegister.post"})
        => \A password \in Passwords, u \in uuid4 :
               LET other == Respond(Serve(WithPassword(password), Draw(u, <<>>, <<>>)))
               IN  /\ other.status = response.status
                   /\ other.status \in {200, 201}
                   /\ other.body.user.email = response.body.user.email
                   /\ other.body.user.name = response.body.user.name
                   /\ other.body.user.role = response.body.user.role

C14_Witness ==
    /\ Responded("DoctorRegister.post")
    /\ request.data.password = <<"p", "w", "2">>
    /\ response.status = 201
    /\ response.body.user.role = <<"d", "o", "c", "t", "o", "r">>

\* C15 as stated: a lookup by id never reports not-found: GET on /doctors/{id},
\* /patients/{id}, /prescriptions/{id} and /health-tips/{id} returns 200 with
\* a record whose id is the path id, for any id.
C15_LookupNeverNotFound ==
    (pc = "responded"
        /\ request.endpoint \in {"Doctor.get", "Patient.get", "Prescription.get",
                                 "HealthTip.get"})
        => /\ response.status = 200
           /\ response.body.id = request.path

\* C16 as stated: foreign keys are copied through: a created prescription carries the
\* body's patientId, every notification of patient p carries patientId p,
\* every follow-up of doctor d carries doctorId d and every follow-up of
\* patient p carries patientId p, for any value.
C16_ForeignKeysCopiedThrough ==
    /\ Responded("PrescriptionList.post") =>
           /\ response.status = 201
           /\ response.body.patientId = request.data.patientId
    /\ Responded("PatientNotifications.get") =>
           /\ response.status = 200
           /\ \A k \in 1..Len(response.body) : response.body[k].patientId = request.path
    /\ Responded("DoctorFollowUps.get") =>
           /\ response.status = 200
           /\ \A k \in 1..Len(response.body) : response.body[k].doctorId = request.path
    /\ Responded("PatientFollowUps.get") =>
           /\ response.status = 200
           /\ \A k \in 1..Len(response.body) : response.body[k].patientId = request.path

\* C17: no request changes what a later request observes: a read gets the
\* response the same read got earlier, random and clock-derived values
\* apart, whatever was created, updated or deleted in between.
C17_WritesLeaveReadsUnchanged ==
    (/\ pc = "responded"
     /\ request.endpoint \in ReadEndpoints
     /\ before.kept
     /\ before.request = request)
        => Stable(request.endpoint, response) = Stable(request.endpoint, before.response)

C17_Witness ==
    /\ Responded("Doctor.get")
    /\ before.kept
    /\ before.request = request
    /\ written = [endpoint |-> "Doctor.delete", path |-> request.path]
    /\ response.status = 200
    /\ response.body.name = <<"D", "r", ".", " ", "S", "a", "r", "a", "h", " ", "W", "i", "l", "l", "i", "a", "m", "s">>

\* C18: concurrently handled requests do not affect each other: whenever a
\* worker has its response, its handler has returned what it returns, and
\* the response is the one the request gets, when handled alone with the same
\* random and clock values.
C18_ConcurrentAsAlone ==
    \A w \in Workers :
        contexts[w].pc = "responded" =>
            /\ contexts[w].returned = Serve(contexts[w].request, contexts[w].drawn)
            /\ contexts[w].response = Respond(Serve(contexts[w].request, contexts[w].drawn))

C18_Witness ==
    /\ contexts[1].pc = "responded"
    /\ contexts[1].request.endpoint = "PrescriptionList.post"
    /\ contexts[1].request.token = MissingToken
    /\ contexts[1].returned.status = 201
    /\ contexts[1].returned.body.doctorId = <<"d", "o", "c", "-", "1", "2", "3", "4", "5", "6", "7", "8">>
    /\ contexts[1].response.status = 500
    /\ contexts[2].pc = "verified"
    /\ contexts[2].jwt = ValidToken

\* C19 as stated: every record GET /medicines serves has an id and a name
\* that ends with the strength, and the ids are pairwise distinct.
C19_CatalogRecordsWellFormed ==
    Responded("MedicineList.get") =>
        /\ \A k \in 1..Len(response.body) :
               /\ {"id", "name"} \subseteq DOMAIN response.body[k]
               /\ EndsWith(response.body[k].name, <<"m", "g">>)
        /\ \A a, b \in 1..Len(response.body) :
               a # b => response.body[a].id # response.body[b].id

\* C20: an endpoint under jwt_required runs its handler body only after the
\* token has been verified: with a missing or malformed token the body does
\* not run and the response is no 200/204 success.
C20_BodyRunsOnlyAfterVerification ==
    (pc = "responded"
        /\ request.endpoint \in {"DoctorPatients.get", "Doctor.put", "Doctor.delete",
                                 "Patient.put", "Patient.delete"})
        => /\ runs > 0 => request.token.kind = "valid"
           /\ request.token.kind # "valid" =>
                  /\ runs = 0
                  /\ response.status \notin {200, 204}
                  /\ TokenRejected

C20_Witness ==
    /\ Responded("Doctor.delete")
    /\ request.token = MissingToken
    /\ runs = 0
    /\ response.status = 401

(***************************************************************************)
(* Vocabulary of the properties about updates and medicines                *)
(***************************************************************************)
MockDoctor == <<"d", "o", "c", "-", "1", "2", "3", "4", "5", "6", "7", "8">>

\* the identity a prescription write is expected to record
ExpectedDoctor ==
    IF request.token.kind = "valid" THEN request.token.sub ELSE MockDoctor

NotificationStatuses == {<<"p", "e", "n", "d", "i", "n", "g">>, <<"t", "a", "k", "e", "n">>, <<"m", "i", "s", "s", "e", "d">>}

FollowUpStatuses == {<<"s", "c", "h", "e", "d", "u", "l", "e", "d">>, <<"c", "o", "m", "p", "l", "e", "t", "e", "d">>, <<"r", "e", "s", "c", "h", "e", "d", "u", "l", "e", "d">>, <<"m", "i", "s", "s", "e", "d">>}

PrescriptionStatuses == {<<"a", "c", "t", "i", "v", "e">>, <<"c", "o", "m", "p", "l", "e", "t", "e", "d">>}

\* the status values of the response in hand, whose body is one record or a
\* list of records
ResponseStatuses ==
    IF request.endpoint \in {"UpdateNotification.put", "UpdateFollowUp.put",
                             "PrescriptionList.post", "Prescription.get",
                             "Prescription.put"}
    THEN {response.body.status}
    ELSE {response.body[k].status : k \in 1..Len(response.body)}

\* the routes and methods both app.py and medscribe_api.py define
CommonEndpoints ==
    {"Login.post", "DoctorRegister.post", "PatientRegister.post", "DoctorList.get",
     "Doctor.get", "DoctorPatients.get", "PatientList.get", "Patient.get",
     "PrescriptionList.get", "PrescriptionList.post", "Prescription.get",
     "Prescription.put", "DoctorPrescriptions.get", "PatientPrescriptions.get",
     "MedicineList.get", "MedicineSearch.get"}

\* what GET /medicines of the same application answers to the same caller
ListedCatalog ==
    Respond(Serve(Request(request.app, "MedicineList.get", request.token,
                          <<>>, <<>>, <<>>), NoDraw)).body

\* the <<id, name>> pairs of the records of a list that carry both
Named(records) ==
    {<<records[k].id, records[k].name>> :
        k \in {j \in 1..Len(records) : {"id", "name"} \subseteq DOMAIN records[j]}}

\* the <<id, name>> pairs of the medicines a response of the program mentions
MedicinesIn(req, resp) ==
    IF resp.status # 200 THEN {}
    ELSE IF req.endpoint \in {"MedicineList.get", "MedicineSearch.get",
                              "MedicinesByGroup.get", "MedicinesByCompany.get"}
    THEN Named(resp.body)
    ELSE IF req.endpoint = "Prescription.get"
    THEN Named(resp.body.medicines)
    ELSE IF req.endpoint = "Prescription.put" /\ "medicines" \notin DOMAIN req.data
    THEN Named(resp.body.medicines)
    ELSE IF req.endpoint = "PatientNotifications.get"
    THEN {<<resp.body[k].medicineId, resp.body[k].medicineName>> :
            k \in 1..Len(resp.body)}
    ELSE IF req.endpoint = "PatientMedicationSchedule.get"
    THEN UNION {{<<slot.medicines[k].medicineId, slot.medicines[k].name>> :
                    k \in 1..Len(slot.medicines)} :
                slot \in Range(resp.body.dailySchedule)}
    ELSE {}

(***************************************************************************)
(* Properties of updates, of the decorator and of the medicine data        *)
(***************************************************************************)

\* C21 as stated: POST /prescriptions and PUT /prescriptions/{id} record as doctorId
\* the identity of a valid bearer token, and the mock identity doc-12345678
\* when the token is missing or invalid; a created prescription is active.
C21_DoctorIdFromTokenOrMock ==
    /\ Responded("PrescriptionList.post") =>
           /\ response.status = 201
           /\ response.body.doctorId = ExpectedDoctor
           /\ response.body.status = <<"a", "c", "t", "i", "v", "e">>
    /\ (Responded("Prescription.put") /\ response.status = 200) =>
           response.body.doctorId = ExpectedDoctor

\* C22 as stated: PUT /prescriptions/{id} answers 200 for every JSON object
\* body, whether date and followUpDate are absent, null or not ISO-formatted;
\* date falls back to the current time, followUpDate is null when absent or
\* empty and the current time + 30 days when present but unparseable.
C22_UpdateNeverFailsOnDates ==
    Responded("Prescription.put") =>
        LET data == request.data
            followUp == Get(data, "followUpDate", None)
            reads == Len(drawn.now)
        IN  /\ response.status = 200
            /\ ("date" \notin DOMAIN data \/ ~IsIsoFormat(Get(data, "date", None))) =>
                   /\ reads >= 1
                   /\ response.body.date = drawn.now[1]
            /\ ~Truthy(followUp) => response.body.followUpDate = None
            /\ (Truthy(followUp) /\ ~IsIsoFormat(followUp)) =>
                   /\ reads >= 1
                   /\ response.body.followUpDate = PlusDays(drawn.now[reads], 30)

\* C23 as stated: PUT /notifications/{id}/update answers 200 for every body
\* that carries status, with or without isRead, echoing the path id and the
\* submitted status; likewise PUT /followups/{id}/update for every body that
\* carries status, with or without scheduledDate and notes.
C23_UpdatesNeedOnlyStatus ==
    (pc = "responded"
        /\ request.endpoint \in {"UpdateNotification.put", "UpdateFollowUp.put"}
        /\ "status" \in DOMAIN request.data)
        => /\ response.status = 200
           /\ response.body.id = request.path
           /\ response.body.status = request.data.status

\* C24 as stated: every status value in a successful response is one of the
\* documented values of its entity: pending/taken/missed for notifications,
\* scheduled/completed/rescheduled/missed for follow-ups, active/completed
\* for prescriptions, the responses of the update endpoints included.
C24_StatusesInEnumeration ==
    (pc = "responded" /\ response.status \in {200, 201}) =>
        /\ request.endpoint \in {"PatientNotifications.get", "UpdateNotification.put"} =>
               ResponseStatuses \subseteq NotificationStatuses
        /\ request.endpoint \in {"FollowUpList.get", "DoctorFollowUps.get",
                                 "DoctorDueFollowUps.get", "PatientFollowUps.get",
                                 "UpdateFollowUp.put"} =>
               ResponseStatuses \subseteq FollowUpStatuses
        /\ request.endpoint \in {"PrescriptionList.get", "PrescriptionList.post",
                                 "Prescription.get", "Prescription.put",
                                 "DoctorPrescriptions.get", "PatientPrescriptions.get"} =>
               ResponseStatuses \subseteq PrescriptionStatuses

\* C25 as stated: on every endpoint wrapped by jwt_optional the handler body
\* has run exactly once when the response is there, whatever the token and
\* whether or not the handler raised.
C25_OptionalBodyRunsOnce ==
    (pc = "responded" /\ request.endpoint \in jwt_optional_endpoints) => runs = 1

\* C26 as stated: GET /medicines/search with an empty or absent query returns
\* the sequence of records GET /medicines returns.
C26_EmptySearchIsTheListedCatalog ==
    (Searched /\ Len(SearchedQuery) = 0) => response.body = ListedCatalog

\* C27 as stated: on every route and method both modules define, app.py and
\* medscribe_api.py answer the same request, with the same random and clock
\* values, with the same status and body.
C27_ModulesAgreeOnCommonSurface ==
    (pc = "responded" /\ request.endpoint \in CommonEndpoints) =>
        \A app \in Apps :
            Respond(Serve([request EXCEPT !.app = app], drawn)) = response

\* C28 as stated: every record a facet lookup returns has the id and name of
\* a record GET /medicines returns, and its group and company are among the
\* labels GET /medicines/groups and GET /medicines/companies publish.
C28_FacetRecordsAreCatalogRecords ==
    (pc = "responded"
        /\ request.endpoint \in {"MedicinesByGroup.get", "MedicinesByCompany.get"})
        => \A k \in 1..Len(response.body) :
               /\ <<response.body[k].id, response.body[k].name>> \in Named(ListedCatalog)
               /\ response.body[k].group \in Range(groups)
               /\ response.body[k].company \in Range(companies)

\* C29 as stated: a medicine id denotes the same medicine in every response:
\* when the response in hand and an earlier response mention a medicine with
\* the same id, the two names are equal.
C29_MedicineIdDenotesOneMedicine ==
    (pc = "responded" /\ before.kept) =>
        \A m \in MedicinesIn(request, response),
           n \in MedicinesIn(before.request, before.response) :
            m[1] = n[1] => m[2] = n[2]

====
